---- MODULE Spec2Model ----
(***************************************************************************)
(* A model of the OIDC middleware of XenitAB/pkg                           *)
(* (echo-v4-middleware/oidc/oidc.go): the keyHandler (a key set behind a   *)
(* sync.RWMutex, refreshed from the jwks endpoint on a lookup miss) and    *)
(* the calls made on it; the goroutine start helper of the service        *)
(* package; the fan-in and map helpers of the channels package.            *)
(***************************************************************************)
EXTENDS Integers, Sequences, FiniteSets, TLC

\* ------------------------------------------------------------------ bounds

\* Number of goroutines (requests) using one keyHandler concurrently.
NumProcs == 2

\* Number of times the jwks endpoint rotates its keys in a behaviour.
MaxRotations == 1

Procs == 1..NumProcs

NoProc == 0

\* Key ids: 0 is the empty key id; kid e+1 is the key published by rotation e
\* (unknown to the endpoint until then, and again once it is dropped).
NoKid == 0

Kids == 1..(MaxRotations + 1)

\* Number of input channels handed to channels.Merge.
NumInputs == 2

\* Number of values sent on one input channel in a behaviour.
MaxSend == 2

Inputs == 1..NumInputs

VARIABLES
  keySet,      \* keyHandler.keySet
  readers,     \* goroutines holding the RWMutex for reading
  writer,      \* goroutine that holds, or has announced, the RWMutex's write lock
  handler,     \* "none" before newKeyHandler, then "ready", "failed" or a panic
  epoch,       \* number of rotations of the jwks endpoint so far
  fetchedSets, \* history: the key sets successful fetches of this handler returned
  pc,          \* each goroutine's position
  loc,         \* each goroutine's locals in getByKeyID
  cfg,         \* the OIDCConfig of the middleware, after its defaults
  req,         \* each goroutine's request in the middleware
  log,         \* history: what the sequential test did and saw, in order
  wg,          \* service.start: the counter of its sync.WaitGroup
  errGroup,    \* service: the errgroup.Group handed to Start
  doneCh,      \* waitForWaitGroupWithTimeout: the channel c
  timer,       \* waitForWaitGroupWithTimeout: the timer behind time.After
  spc,         \* service: each goroutine's position
  sret,        \* service: what start's wait and WaitForErrGroup returned
  cs,          \* channels: the input channels, with the history of what was sent
  out,         \* channels: the output channel, with the history of what it delivered
  mergeWg,     \* channels.Merge: the counter of its sync.WaitGroup
  gpc,         \* channels: the position and local of each goroutine Merge or Map starts
  consumer     \* channels: the position of the caller ranging over the output

oidcVars == <<keySet, readers, writer, handler, epoch, fetchedSets, pc, loc, cfg, req, log>>

serviceVars == <<wg, errGroup, doneCh, timer, spc, sret>>

channelVars == <<cs, out, mergeWg, gpc, consumer>>

vars == <<oidcVars, serviceVars, channelVars>>

\* The service and channels packages: untouched by the middleware.
ext == <<serviceVars, channelVars>>

\* The middleware's state and the test's record: untouched by the keyHandler.
aux == <<cfg, req, log>>

\* ---------------------------------------------------------------- key sets

Key(k) == [kid |-> k, mat |-> k]

\* A jwk.Set value: nil (the zero value of the interface), a complete set, or
\* the result of a read that raced with the assignment.
NilSet == [tag |-> "nil", keys |-> <<>>]

MkSet(ks) == [tag |-> "set", keys |-> ks]

TornSet == [tag |-> "torn", keys |-> <<>>]

NoKey == Key(NoKid)

RECURSIVE LookupFrom(_, _, _)
LookupFrom(keys, i, keyID) ==
  IF i > Len(keys) THEN [key |-> NoKey, found |-> FALSE]
  ELSE IF keys[i].kid = keyID THEN [key |-> keys[i], found |-> TRUE]
  ELSE LookupFrom(keys, i + 1, keyID)

\* jwk.Set.LookupKeyID: the first key of the set with this key id.
LookupKeyID(set, keyID) == LookupFrom(set.keys, 1, keyID)

\* The key set the jwks endpoint serves after e rotations: one key, replaced
\* by every rotation (the test provider's RotateKeys).
KeySetAt(e) == MkSet(<<Key(e + 1)>>)

\* ------------------------------------------------------------------ locals

InitLoc ==
  [keyID |-> NoKid, retry |-> FALSE, depth |-> 0, ks |-> NilSet,
   fetched |-> NilSet, key |-> NoKey, err |-> "none",
   nfetch |-> 0, nlookup |-> 0, missed |-> FALSE, overwritten |-> FALSE]

\* No middleware has been configured: the keyHandler is used on its own.
NoCfg ==
  [Issuer |-> "", RequiredTokenType |-> "", RequiredAudience |-> "",
   AllowedTokenDrift |-> 0, TokenLookup |-> <<>>, AuthScheme |-> <<>>,
   Skipper |-> "nil", BeforeFunc |-> FALSE, SuccessHandler |-> FALSE,
   ErrorHandler |-> FALSE, ErrorHandlerWithContext |-> FALSE,
   ContextKey |-> "", JwksUri |-> ""]

\* The protected header of a string that is no JWS message.
NoHead == [parse |-> FALSE, nsig |-> 0, kid |-> NoKid, typ |-> ""]

\* The signature and claims of a token that have not been read.
NoPayload == [sigkey |-> NoKid, exp |-> 0, iss |-> "", aud |-> <<>>]

NoSources ==
  [header |-> <<>>, query |-> <<>>, param |-> <<>>, form |-> <<>>,
   cookie |-> <<>>, hasCookie |-> FALSE]

\* How often the middleware has called each function it was configured with,
\* and the next handler, for one request.
NoCalls == [before |-> 0, success |-> 0, error |-> 0, errorCtx |-> 0, next |-> 0]

\* What the middleware returns to the framework: by is the function whose
\* result it returns, code the HTTP status of a default error, err the error
\* the result carries.
NoResp == [by |-> "none", code |-> 0, err |-> "none"]

\* The goroutine is not serving a request.
NoReq ==
  [active |-> FALSE, sources |-> NoSources, invoked |-> <<>>, auth |-> <<>>,
   head |-> NoHead, payload |-> NoPayload, stages |-> <<>>,
   outcome |-> "none", reason |-> "none", cache0 |-> NilSet,
   skipped |-> FALSE, ctx |-> <<>>, calls |-> NoCalls, resp |-> NoResp]

\* service: an errgroup.Group nothing was started in: the goroutines running
\* in it, its first error, and (history) how often the timeout was reported.
NoErrGroup == [active |-> 0, err |-> "nil", timeouts |-> 0]

\* service: before Start is called no goroutine exists, and nobody waits.
NoGoroutines ==
  [start |-> "idle", service |-> "none", waiter |-> "none",
   report |-> "none", stop |-> "none", wait |-> "idle"]

\* channels: an open channel nothing was sent on.  buf holds the values sent
\* and not yet received; sent is the history of all values sent.
NoChan == [buf |-> <<>>, sent |-> <<>>, closed |-> FALSE]

\* channels: the goroutine of Merge that closes the output (the others are
\* numbered by the input channel they read).
Closer == 0

\* channels: a goroutine that was not started, and its loop variable.
NoGoroutine == [at |-> "none", n |-> 0]

Init ==
  /\ keySet = NilSet
  /\ readers = {}
  /\ writer = NoProc
  /\ handler = "none"
  /\ epoch = 0
  /\ fetchedSets = {}
  /\ pc = [p \in Procs |-> "idle"]
  /\ loc = [p \in Procs |-> InitLoc]
  /\ cfg = NoCfg
  /\ req = [p \in Procs |-> NoReq]
  /\ log = <<>>
  /\ wg = 0
  /\ errGroup = NoErrGroup
  /\ doneCh = "nil"
  /\ timer = "nil"
  /\ spc = NoGoroutines
  /\ sret = [start |-> "none", wait |-> "none"]
  /\ cs = [i \in Inputs |-> NoChan]
  /\ out = [made |-> FALSE, closed |-> FALSE, delivered |-> <<>>]
  /\ mergeWg = 0
  /\ gpc = [i \in Inputs \cup {Closer} |-> NoGoroutine]
  /\ consumer = "idle"

\* ------------------------------------------------------- the jwks endpoint

\* The key set the endpoint serves now.
served == KeySetAt(epoch)

\* op.RotateKeys: the endpoint starts serving a new key.
RotateKeys ==
  /\ epoch < MaxRotations
  /\ epoch' = epoch + 1
  /\ UNCHANGED <<keySet, readers, writer, handler, fetchedSets, pc, loc, aux, ext>>

\* -------------------------------------------------------------- keyHandler

\* newKeyHandler, the initial updateKeySet succeeding: the handler is returned.
NewKeyHandlerOK ==
  /\ handler = "none"
  /\ keySet' = served
  /\ fetchedSets' = fetchedSets \cup {served}
  /\ handler' = "ready"
  /\ UNCHANGED <<readers, writer, epoch, pc, loc, aux, ext>>

\* newKeyHandler, the initial fetch failing: (nil, err), no handler exists.
NewKeyHandlerFail ==
  /\ handler = "none"
  /\ handler' = "failed"
  /\ UNCHANGED <<keySet, readers, writer, epoch, fetchedSets, pc, loc, aux, ext>>

\* A goroutine calls getByKeyID(k, false) on the handler.
Call(p, k) ==
  /\ handler = "ready"
  /\ pc[p] = "idle"
  /\ pc' = [pc EXCEPT ![p] = "rlock"]
  /\ loc' = [loc EXCEPT ![p] = [InitLoc EXCEPT !.keyID = k]]
  /\ UNCHANGED <<keySet, readers, writer, handler, epoch, fetchedSets, aux, ext>>

\* (mutant) RLock that does not wait for the writer.
RLock_IgnoreWriter(p) ==
  /\ pc[p] = "rlock"
  /\ readers' = readers \cup {p}
  /\ pc' = [pc EXCEPT ![p] = "read"]
  /\ UNCHANGED <<keySet, writer, handler, epoch, fetchedSets, loc, aux, ext>>

\* sync.RWMutex.RLock: blocks while a writer holds or has announced the lock.
RLock(p) ==
  /\ pc[p] = "rlock"
  /\ writer = NoProc
  /\ readers' = readers \cup {p}
  /\ pc' = [pc EXCEPT ![p] = "read"]
  /\ UNCHANGED <<keySet, writer, handler, epoch, fetchedSets, loc, aux, ext>>

\* What a read of h.keySet can yield: the field's value, unless the read races
\* with a goroutine that is assigning the field (a data race: any outcome).
ReadKeySet ==
  IF \E w \in Procs : pc[w] = "write"
  THEN {keySet, TornSet} \cup {loc[w].fetched : w \in {v \in Procs : pc[v] = "write"}}
  ELSE {keySet}

\* The two branches of getByKeyID after the lookup.
AfterLookup(l, found, key) ==
  IF ~found /\ ~l.retry THEN [l EXCEPT !.nlookup = @ + 1]
  ELSE IF ~found /\ l.retry
    THEN [l EXCEPT !.nlookup = @ + 1, !.err = "notfound"]
    ELSE [l EXCEPT !.nlookup = @ + 1, !.key = key]

\* (mutant) the retry flag is ignored: every miss refreshes again.
PcAfterLookup_AlwaysRefresh(l, found) == IF ~found THEN "update" ELSE "done"

\* (mutant) every first lookup is followed by a refresh, found or not.
PcAfterLookup_RefreshAlways(l, found) == IF ~l.retry THEN "update" ELSE "done"

PcAfterLookup(l, found) == IF ~found /\ ~l.retry THEN "update" ELSE "done"

\* getKeySet returns (return h.keySet; deferred RUnlock), then
\* keySet.LookupKeyID(keyID) and the branch on found and retry.
GetKeySetReturn(p) ==
  /\ pc[p] = "read"
  /\ \E set \in ReadKeySet :
       LET r == LookupKeyID(set, loc[p].keyID)
           l == [loc[p] EXCEPT !.ks = set,
                               !.missed = @ \/ (~r.found /\ loc[p].nlookup = 0)]
       IN /\ loc' = [loc EXCEPT ![p] = AfterLookup(l, r.found, r.key)]
          /\ pc' = [pc EXCEPT ![p] = PcAfterLookup(l, r.found)]
  /\ readers' = readers \ {p}
  /\ UNCHANGED <<keySet, writer, handler, epoch, fetchedSets, aux, ext>>

\* (mutant) updateKeySet takes the write lock before it fetches.
UpdateKeySetBegin_LockFirst(p) ==
  /\ pc[p] = "update"
  /\ writer = NoProc
  /\ readers = {}
  /\ writer' = p
  /\ pc' = [pc EXCEPT ![p] = "fetch"]
  /\ loc' = [loc EXCEPT ![p].ks = NilSet]
  /\ UNCHANGED <<keySet, readers, handler, epoch, fetchedSets, aux, ext>>

\* (mutant) single flight: a call that finds another call's refresh in
\* progress does not fetch and goes on to look the key up again.
UpdateKeySetBegin_SingleFlight(p) ==
  /\ pc[p] = "update"
  /\ IF \E q \in Procs \ {p} : pc[q] \in {"fetch", "lock", "lockwait", "write"}
       THEN /\ pc' = [pc EXCEPT ![p] = "rlock"]
            /\ loc' = [loc EXCEPT ![p].ks = NilSet, ![p].retry = TRUE,
                                  ![p].depth = @ + 1]
       ELSE /\ pc' = [pc EXCEPT ![p] = "fetch"]
            /\ loc' = [loc EXCEPT ![p].ks = NilSet]
  /\ UNCHANGED <<keySet, readers, writer, handler, epoch, fetchedSets, aux, ext>>

\* updateKeySet is entered: the context is made and jwk.Fetch is issued. The
\* caller's keySet local is dead from here on.
UpdateKeySetBegin(p) ==
  /\ pc[p] = "update"
  /\ pc' = [pc EXCEPT ![p] = "fetch"]
  /\ loc' = [loc EXCEPT ![p].ks = NilSet]
  /\ UNCHANGED <<keySet, readers, writer, handler, epoch, fetchedSets, aux, ext>>

\* jwk.Fetch returns the set the endpoint serves at that moment.
FetchOK(p) ==
  /\ pc[p] = "fetch"
  /\ loc' = [loc EXCEPT ![p].fetched = served, ![p].nfetch = @ + 1]
  /\ fetchedSets' = fetchedSets \cup {served}
  /\ pc' = [pc EXCEPT ![p] = "lock"]
  /\ UNCHANGED <<keySet, readers, writer, handler, epoch, aux, ext>>

\* The error of the fetch noted, and the lookup made again all the same.
FetchFail_LookupAgain(p) ==
  /\ pc[p] = "fetch"
  /\ loc' = [loc EXCEPT ![p].nfetch = @ + 1, ![p].err = "fetch",
                        ![p].retry = TRUE]
  /\ pc' = [pc EXCEPT ![p] = "rlock"]
  /\ UNCHANGED <<keySet, readers, writer, handler, epoch, fetchedSets, aux, ext>>

\* (mutant) a failed fetch that drops the cached set.
FetchFail_DropCache(p) ==
  /\ pc[p] = "fetch"
  /\ loc' = [loc EXCEPT ![p].nfetch = @ + 1, ![p].err = "fetch"]
  /\ keySet' = MkSet(<<>>)
  /\ pc' = [pc EXCEPT ![p] = "done"]
  /\ UNCHANGED <<readers, writer, handler, epoch, fetchedSets, aux, ext>>

\* jwk.Fetch fails (unreachable, timeout, unparsable): updateKeySet and
\* getByKeyID return the error.
FetchFail(p) ==
  /\ pc[p] = "fetch"
  /\ loc' = [loc EXCEPT ![p].nfetch = @ + 1, ![p].err = "fetch"]
  /\ pc' = [pc EXCEPT ![p] = "done"]
  /\ UNCHANGED <<keySet, readers, writer, handler, epoch, fetchedSets, aux, ext>>

\* sync.RWMutex.Lock, first half: take the writers' mutex and announce the
\* writer, which blocks new readers.
Lock(p) ==
  /\ pc[p] = "lock"
  /\ writer = NoProc
  /\ writer' = p
  /\ pc' = [pc EXCEPT ![p] = "lockwait"]
  /\ UNCHANGED <<keySet, readers, handler, epoch, fetchedSets, loc, aux, ext>>

\* sync.RWMutex.Lock, second half: the active readers have left.
LockAcquire(p) ==
  /\ pc[p] = "lockwait"
  /\ readers = {}
  /\ pc' = [pc EXCEPT ![p] = "write"]
  /\ UNCHANGED <<keySet, readers, writer, handler, epoch, fetchedSets, loc, aux, ext>>

\* (mutant) the assignment without the Unlock.
AssignUnlock_NoUnlock(p) ==
  /\ pc[p] = "write"
  /\ keySet' = loc[p].fetched
  /\ loc' = [loc EXCEPT ![p].retry = TRUE, ![p].depth = @ + 1]
  /\ pc' = [pc EXCEPT ![p] = "rlock"]
  /\ UNCHANGED <<readers, writer, handler, epoch, fetchedSets, aux, ext>>

\* (mutant) the lock is taken and released, the fetched set is not installed.
AssignUnlock_NoAssign(p) ==
  /\ pc[p] = "write"
  /\ writer' = NoProc
  /\ loc' = [loc EXCEPT ![p].retry = TRUE, ![p].depth = @ + 1]
  /\ pc' = [pc EXCEPT ![p] = "rlock"]
  /\ UNCHANGED <<keySet, readers, handler, epoch, fetchedSets, aux, ext>>

\* h.keySet = keySet; h.Unlock(); updateKeySet returns nil and getByKeyID
\* returns h.getByKeyID(keyID, true). History: every other call that has
\* installed its own set and not yet read it back has had it replaced.
AssignUnlock(p) ==
  /\ pc[p] = "write"
  /\ keySet' = loc[p].fetched
  /\ writer' = NoProc
  /\ loc' = [q \in Procs |->
               IF q = p
                 THEN [loc[q] EXCEPT !.retry = TRUE, !.depth = @ + 1,
                                     !.overwritten = FALSE]
               ELSE IF pc[q] \in {"rlock", "read"} /\ loc[q].retry
                 THEN [loc[q] EXCEPT !.overwritten = TRUE]
                 ELSE loc[q]]
  /\ pc' = [pc EXCEPT ![p] = "rlock"]
  /\ UNCHANGED <<readers, handler, epoch, fetchedSets, aux, ext>>

\* The caller takes the result of getByKeyID.
Return(p) ==
  /\ pc[p] = "done"
  /\ pc' = [pc EXCEPT ![p] = "idle"]
  /\ loc' = [loc EXCEPT ![p] = InitLoc]
  /\ UNCHANGED <<keySet, readers, writer, handler, epoch, fetchedSets, aux, ext>>

\* A step of getByKeyID by goroutine p.
HandlerStep(p) ==
  \/ RLock(p)
  \/ GetKeySetReturn(p)
  \/ UpdateKeySetBegin(p)
  \/ FetchOK(p)
  \/ FetchFail(p)
  \/ Lock(p)
  \/ LockAcquire(p)
  \/ AssignUnlock(p)

Next ==
  \/ RotateKeys
  \/ NewKeyHandlerOK
  \/ NewKeyHandlerFail
  \/ \E p \in Procs, k \in Kids : Call(p, k)
  \/ \E p \in Procs : HandlerStep(p)
  \/ \E p \in Procs : Return(p)

Spec == Init /\ [][Next]_vars

\* --------------------------------------------------------- the middleware

\* Strings that the code slices, as sequences of characters.
Bearer == <<"B", "e", "a", "r", "e", "r">>

Basic == <<"B", "a", "s", "i", "c">>

\* time.Now() at the expiry check, in seconds.
Now == 100

\* The default of AllowedTokenDrift, in seconds.
DefaultTokenDrift == 10

\* OIDCWithConfig's defaults for the fields left zero.
WithDefaults(c) ==
  [c EXCEPT !.AllowedTokenDrift = IF @ = 0 THEN DefaultTokenDrift ELSE @,
            !.TokenLookup = IF @ = <<>> THEN <<"header">> ELSE @,
            !.AuthScheme = IF @ = <<>> THEN Bearer ELSE @,
            !.Skipper = IF @ = "nil" THEN "default" ELSE @,
            !.ContextKey = IF @ = "" THEN "user" ELSE @]

\* jwtFromHeader: the header value after the scheme and one more character,
\* when the value is longer than that and begins with the scheme.
JwtFromHeader(auth, authScheme) ==
  LET l == Len(authScheme)
  IN IF Len(auth) > l + 1 /\ SubSeq(auth, 1, l) = authScheme
       THEN [token |-> SubSeq(auth, l + 2, Len(auth)), found |-> TRUE]
       ELSE [token |-> <<>>, found |-> FALSE]

\* jwtFromQuery, jwtFromParam, jwtFromForm: the value, unless it is empty.
JwtFromValue(v) ==
  IF v = <<>> THEN [token |-> <<>>, found |-> FALSE]
  ELSE [token |-> v, found |-> TRUE]

\* jwtFromCookie: the cookie's value, when the request has the cookie.
JwtFromCookie(has, v) ==
  IF ~has THEN [token |-> <<>>, found |-> FALSE]
  ELSE [token |-> v, found |-> TRUE]

\* The extractor compiled from one source of TokenLookup, applied to a request.
Extract(kind, c, src) ==
  CASE kind = "query" -> JwtFromValue(src.query)
    [] kind = "param" -> JwtFromValue(src.param)
    [] kind = "cookie" -> JwtFromCookie(src.hasCookie, src.cookie)
    [] kind = "form" -> JwtFromValue(src.form)
    [] kind = "header" -> JwtFromHeader(src.header, c.AuthScheme)

\* The sources of TokenLookup that compile into an extractor.
RECURSIVE Extractors(_)
Extractors(lookup) ==
  IF lookup = <<>> THEN <<>>
  ELSE (IF Head(lookup) \in {"query", "param", "cookie", "form", "header"}
          THEN <<Head(lookup)>> ELSE <<>>) \o Extractors(Tail(lookup))

\* The loop without its break: every extractor is invoked, the last one's
\* result stands.
RECURSIVE ExtractLoop_NoBreak(_, _, _, _, _)
ExtractLoop_NoBreak(chain, i, c, src, acc) ==
  IF i > Len(chain) THEN acc
  ELSE LET r == Extract(chain[i], c, src)
       IN ExtractLoop_NoBreak(chain, i + 1, c, src,
            [auth |-> r.token, missing |-> ~r.found,
             invoked |-> Append(acc.invoked, chain[i])])

\* The loop over the extractors: each is invoked in turn until one finds a
\* token; auth and err are those of the last one invoked.
RECURSIVE ExtractLoop(_, _, _, _, _)
ExtractLoop(chain, i, c, src, acc) ==
  IF i > Len(chain) THEN acc
  ELSE LET r == Extract(chain[i], c, src)
           a == [auth |-> r.token, missing |-> ~r.found,
                 invoked |-> Append(acc.invoked, chain[i])]
       IN IF r.found THEN a ELSE ExtractLoop(chain, i + 1, c, src, a)

RunExtractors(c, src) ==
  ExtractLoop(Extractors(c.TokenLookup), 1, c, src,
              [auth |-> <<>>, missing |-> FALSE, invoked |-> <<>>])

\* The key id of the first signature, however many signatures there are.
GetKeyIDFromTokenString_AnySignatures(h) ==
  IF ~h.parse THEN [err |-> "malformed", keyID |-> NoKid]
  ELSE IF h.kid = NoKid THEN [err |-> "nokid", keyID |-> NoKid]
  ELSE [err |-> "none", keyID |-> h.kid]

\* getHeadersFromTokenString, then KeyID(): the key id of the token's only
\* signature, or the error.
GetKeyIDFromTokenString(h) ==
  IF ~h.parse THEN [err |-> "malformed", keyID |-> NoKid]
  ELSE IF h.nsig # 1 THEN [err |-> "multisig", keyID |-> NoKid]
  ELSE IF h.kid = NoKid THEN [err |-> "nokid", keyID |-> NoKid]
  ELSE [err |-> "none", keyID |-> h.kid]

\* getHeadersFromTokenString, then Type(): the declared type, or the error.
GetTokenTypeFromTokenString(h) ==
  IF ~h.parse THEN [err |-> "malformed", typ |-> ""]
  ELSE IF h.nsig # 1 THEN [err |-> "multisig", typ |-> ""]
  ELSE IF h.typ = "" THEN [err |-> "notype", typ |-> ""]
  ELSE [err |-> "none", typ |-> h.typ]

\* The type read, and required to be declared, under every configuration.
ParseTokenHeader_AlwaysTyped(h, c) ==
  LET k == GetKeyIDFromTokenString(h)
      t == GetTokenTypeFromTokenString(h)
  IN IF k.err # "none"
       THEN [err |-> k.err, keyID |-> NoKid, stages |-> <<"header">>]
     ELSE IF t.err # "none"
       THEN [err |-> t.err, keyID |-> NoKid, stages |-> <<"header", "type">>]
     ELSE IF c.RequiredTokenType # "" /\ t.typ # c.RequiredTokenType
       THEN [err |-> "typemismatch", keyID |-> NoKid, stages |-> <<"header", "type">>]
     ELSE [err |-> "none", keyID |-> k.keyID, stages |-> <<"header", "type">>]

\* The type checked before the key id.
ParseTokenHeader_TypeFirst(h, c) ==
  LET k == GetKeyIDFromTokenString(h)
      t == GetTokenTypeFromTokenString(h)
  IN IF c.RequiredTokenType # "" /\ t.err # "none"
       THEN [err |-> t.err, keyID |-> NoKid, stages |-> <<"header", "type">>]
     ELSE IF c.RequiredTokenType # "" /\ t.typ # c.RequiredTokenType
       THEN [err |-> "typemismatch", keyID |-> NoKid, stages |-> <<"header", "type">>]
     ELSE IF k.err # "none"
       THEN [err |-> k.err, keyID |-> NoKid, stages |-> <<"header">>]
     ELSE [err |-> "none", keyID |-> k.keyID,
           stages |-> IF c.RequiredTokenType # "" THEN <<"header", "type">>
                      ELSE <<"header">>]

\* parseToken up to the call of getByKeyID: the key id, then the type when
\* RequiredTokenType is set. stages lists what was executed.
ParseTokenHeader(h, c) ==
  LET k == GetKeyIDFromTokenString(h)
      t == GetTokenTypeFromTokenString(h)
  IN IF k.err # "none"
       THEN [err |-> k.err, keyID |-> NoKid, stages |-> <<"header">>]
     ELSE IF c.RequiredTokenType = ""
       THEN [err |-> "none", keyID |-> k.keyID, stages |-> <<"header">>]
     ELSE IF t.err # "none"
       THEN [err |-> t.err, keyID |-> NoKid, stages |-> <<"header", "type">>]
     ELSE IF t.typ # c.RequiredTokenType
       THEN [err |-> "typemismatch", keyID |-> NoKid, stages |-> <<"header", "type">>]
     ELSE [err |-> "none", keyID |-> k.keyID, stages |-> <<"header", "type">>]

\* jwt.ParseString(auth, jwt.WithKeySet({key})): the signature verifies when
\* the token was signed with the key's material.
Verifies(pl, key) == pl.sigkey # NoKid /\ pl.sigkey = key.mat

\* token.Expiration().Round(0).Add(-config.AllowedTokenDrift).Before(time.Now())
TokenExpired(exp, drift, now) == exp - drift < now

\* Only the first audience compared.
AudienceFound_FirstOnly(audiences, required) ==
  audiences # <<>> /\ Head(audiences) = required

\* The loop over token.Audience().
RECURSIVE AudienceFound(_, _)
AudienceFound(audiences, required) ==
  IF audiences = <<>> THEN FALSE
  ELSE (Head(audiences) = required) \/ AudienceFound(Tail(audiences), required)

\* The issuer checked before the expiry.
ParseTokenClaims_IssuerFirst(pl, key, c, now) ==
  IF ~Verifies(pl, key)
    THEN [err |-> "signature", stages |-> <<"verify">>]
  ELSE IF c.Issuer # pl.iss
    THEN [err |-> "issuer", stages |-> <<"verify", "iss">>]
  ELSE IF TokenExpired(pl.exp, c.AllowedTokenDrift, now)
    THEN [err |-> "expired", stages |-> <<"verify", "iss", "exp">>]
  ELSE [err |-> "none", stages |-> <<"verify", "iss", "exp">>]

\* parseToken after getByKeyID returned key: the signature, the expiry, the
\* issuer, then the audience when RequiredAudience is set.
ParseTokenClaims(pl, key, c, now) ==
  IF ~Verifies(pl, key)
    THEN [err |-> "signature", stages |-> <<"verify">>]
  ELSE IF TokenExpired(pl.exp, c.AllowedTokenDrift, now)
    THEN [err |-> "expired", stages |-> <<"verify", "exp">>]
  ELSE IF c.Issuer # pl.iss
    THEN [err |-> "issuer", stages |-> <<"verify", "exp", "iss">>]
  ELSE IF c.RequiredAudience = ""
    THEN [err |-> "none", stages |-> <<"verify", "exp", "iss">>]
  ELSE IF ~AudienceFound(pl.aud, c.RequiredAudience)
    THEN [err |-> "audience", stages |-> <<"verify", "exp", "iss", "aud">>]
  ELSE [err |-> "none", stages |-> <<"verify", "exp", "iss", "aud">>]

\* What the GET of the discovery document can give: an error (request,
\* body or JSON), or a document with its jwks_uri, which may be empty.
DiscoveryResults ==
  {[err |-> TRUE, uri |-> ""], [err |-> FALSE, uri |-> ""],
   [err |-> FALSE, uri |-> "jwks"]}

\* getJwksUriFromDiscoveryUri: the jwks_uri of the document, an error when
\* there is no document or the jwks_uri is empty.
GetJwksUriFromDiscoveryUri(d) ==
  IF d.err \/ d.uri = "" THEN [err |-> TRUE, uri |-> ""]
  ELSE [err |-> FALSE, uri |-> d.uri]

\* The discovery taken to succeed whatever it returned.
Construction_IgnoreErrors(c, d, fetch) ==
  IF c.Issuer = "" THEN "panic: issuer" ELSE "ready"

\* How OIDCWithConfig(c) ends when the discovery gives d and the first fetch
\* of the key set succeeds or not: the panic it raises, or "ready".
Construction(c, d, fetch) ==
  IF c.Issuer = "" THEN "panic: issuer"
  ELSE IF c.JwksUri = "" /\ GetJwksUriFromDiscoveryUri(d).err
    THEN "panic: discovery"
  ELSE IF ~fetch THEN "panic: fetch"
  ELSE "ready"

\* The configuration after the defaults and the discovery.
Configured(c, d) ==
  [WithDefaults(c) EXCEPT
     !.JwksUri = IF @ = "" THEN GetJwksUriFromDiscoveryUri(d).uri ELSE @]

\* OIDCWithConfig(c) returns the middleware: the issuer is set, the JwksUri is
\* given or discovered and newKeyHandler's fetch of the key set succeeded.
OIDCWithConfigOK(c) ==
  /\ handler = "none"
  /\ \E d \in DiscoveryResults, fetch \in BOOLEAN :
       /\ Construction(c, d, fetch) = "ready"
       /\ cfg' = Configured(c, d)
       /\ keySet' = IF fetch THEN served ELSE NilSet
       /\ fetchedSets' = IF fetch THEN fetchedSets \cup {served} ELSE fetchedSets
  /\ handler' = "ready"
  /\ UNCHANGED <<readers, writer, epoch, pc, loc, req, log, ext>>

\* OIDCWithConfig(c) panics: no issuer, or the discovery or the first fetch
\* of the key set failed. cfg keeps the configuration it was called with.
OIDCWithConfigPanic(c) ==
  /\ handler = "none"
  /\ \E d \in DiscoveryResults, fetch \in BOOLEAN :
       /\ Construction(c, d, fetch) # "ready"
       /\ handler' = Construction(c, d, fetch)
  /\ cfg' = c
  /\ UNCHANGED <<keySet, readers, writer, epoch, fetchedSets, pc, loc, req, log, ext>>

\* The rejection of a request, as the middleware's caller sees it.
Rejected(r, reason, stages) ==
  [r EXCEPT !.outcome = "rejected", !.reason = reason, !.stages = @ \o stages]

\* Both error handlers called when both are set.
ReturnError_BothHandlers(r, default) ==
  [r EXCEPT !.calls.error = IF cfg.ErrorHandler THEN @ + 1 ELSE @,
            !.calls.errorCtx = IF cfg.ErrorHandlerWithContext THEN @ + 1 ELSE @,
            !.resp = IF cfg.ErrorHandler \/ cfg.ErrorHandlerWithContext
                       THEN [by |-> "ErrorHandlerWithContext", code |-> 0,
                             err |-> r.reason]
                       ELSE default]

\* ErrorHandlerWithContext asked before ErrorHandler.
ReturnError_ContextFirst(r, default) ==
  IF cfg.ErrorHandlerWithContext
    THEN [r EXCEPT !.calls.errorCtx = @ + 1,
                   !.resp = [by |-> "ErrorHandlerWithContext", code |-> 0,
                             err |-> r.reason]]
  ELSE IF cfg.ErrorHandler
    THEN [r EXCEPT !.calls.error = @ + 1,
                   !.resp = [by |-> "ErrorHandler", code |-> 0, err |-> r.reason]]
  ELSE [r EXCEPT !.resp = default]

\* The return of an error: by ErrorHandler when it is set, else by
\* ErrorHandlerWithContext when that is set, else the default error.
ReturnError(r, default) ==
  IF cfg.ErrorHandler
    THEN [r EXCEPT !.calls.error = @ + 1,
                   !.resp = [by |-> "ErrorHandler", code |-> 0, err |-> r.reason]]
  ELSE IF cfg.ErrorHandlerWithContext
    THEN [r EXCEPT !.calls.errorCtx = @ + 1,
                   !.resp = [by |-> "ErrorHandlerWithContext", code |-> 0,
                             err |-> r.reason]]
  ELSE [r EXCEPT !.resp = default]

\* No extractor found a token: the extractor's ErrJWTMissing is the error.
ExtractFailed(r) ==
  ReturnError(Rejected(r, "missing", <<>>),
              [by |-> "default", code |-> 400, err |-> "missing"])

\* The default for an error of parseToken taken to be ErrJWTMissing's code.
ParseFailed_BadRequest(r, reason, stages) ==
  ReturnError(Rejected(r, reason, stages),
              [by |-> "default", code |-> 400, err |-> reason])

\* parseToken returned an error: the default is ErrJWTInvalid's code and
\* message with the error as Internal.
ParseFailed(r, reason, stages) ==
  ReturnError(Rejected(r, reason, stages),
              [by |-> "default", code |-> 401, err |-> reason])

\* parseToken returned the token: it is set in the request's context, the
\* SuccessHandler is called when there is one, and next's result is returned.
Accepted(r, stages) ==
  [r EXCEPT !.outcome = "accepted", !.stages = @ \o stages,
            !.ctx = Append(@, [key |-> cfg.ContextKey, auth |-> r.auth,
                               head |-> r.head, payload |-> r.payload]),
            !.calls.success = IF cfg.SuccessHandler THEN @ + 1 ELSE @,
            !.calls.next = @ + 1,
            !.resp = [by |-> "next", code |-> 0, err |-> "none"]]

\* BeforeFunc run before the Skipper is asked.
MwSkipped_BeforeFirst(p) ==
  /\ handler = "ready"
  /\ pc[p] = "idle"
  /\ cfg.Skipper = "custom"
  /\ req' = [req EXCEPT ![p] =
               [NoReq EXCEPT !.active = TRUE, !.skipped = TRUE, !.cache0 = keySet,
                             !.calls.before = IF cfg.BeforeFunc THEN 1 ELSE 0,
                             !.calls.next = 1,
                             !.resp = [by |-> "next", code |-> 0, err |-> "none"]]]
  /\ pc' = [pc EXCEPT ![p] = "mw_done"]
  /\ UNCHANGED <<keySet, readers, writer, handler, epoch, fetchedSets, loc, cfg, log, ext>>

\* A request arrives and the Skipper returns true: next is called at once.
MwSkipped(p) ==
  /\ handler = "ready"
  /\ pc[p] = "idle"
  /\ cfg.Skipper = "custom"
  /\ req' = [req EXCEPT ![p] =
               [NoReq EXCEPT !.active = TRUE, !.skipped = TRUE, !.cache0 = keySet,
                             !.calls.next = 1,
                             !.resp = [by |-> "next", code |-> 0, err |-> "none"]]]
  /\ pc' = [pc EXCEPT ![p] = "mw_done"]
  /\ UNCHANGED <<keySet, readers, writer, handler, epoch, fetchedSets, loc, cfg, log, ext>>

\* A request arrives with these sources; the string an extractor finds has
\* this protected header. The middleware runs up to its call of getByKeyID.
MwRequest(p, src, h) ==
  /\ handler = "ready"
  /\ pc[p] = "idle"
  /\ RunExtractors(cfg, src).auth = <<>> => h = NoHead
  /\ LET ex == RunExtractors(cfg, src)
         r0 == [NoReq EXCEPT !.active = TRUE, !.sources = src,
                             !.invoked = ex.invoked, !.stages = <<"extract">>,
                             !.cache0 = keySet,
                             !.calls.before = IF cfg.BeforeFunc THEN 1 ELSE 0]
         r1 == [r0 EXCEPT !.auth = ex.auth, !.head = h]
         ph == ParseTokenHeader(h, cfg)
     IN IF ex.missing
          THEN /\ req' = [req EXCEPT ![p] = ExtractFailed(r0)]
               /\ pc' = [pc EXCEPT ![p] = "mw_done"]
               /\ loc' = loc
        ELSE IF ph.err # "none"
          THEN /\ req' = [req EXCEPT ![p] = ParseFailed(r1, ph.err, ph.stages)]
               /\ pc' = [pc EXCEPT ![p] = "mw_done"]
               /\ loc' = loc
        ELSE /\ req' = [req EXCEPT ![p] = [r1 EXCEPT !.stages = @ \o ph.stages]]
             /\ pc' = [pc EXCEPT ![p] = "rlock"]
             /\ loc' = [loc EXCEPT ![p] = [InitLoc EXCEPT !.keyID = ph.keyID]]
  /\ UNCHANGED <<keySet, readers, writer, handler, epoch, fetchedSets, cfg, log, ext>>

\* getByKeyID has returned to parseToken; the token's signature and claims are
\* these. parseToken runs to its end and the middleware accepts or rejects.
MwResolved(p, pl) ==
  /\ pc[p] = "done"
  /\ req[p].active
  /\ LET r == [req[p] EXCEPT !.stages = @ \o <<"resolve">>]
         pc2 == ParseTokenClaims(pl, loc[p].key, cfg, Now)
         r2 == [r EXCEPT !.payload = pl]
     IN req' = [req EXCEPT ![p] =
                  IF loc[p].err # "none" THEN ParseFailed(r, loc[p].err, <<>>)
                  ELSE IF pc2.err # "none" THEN ParseFailed(r2, pc2.err, pc2.stages)
                  ELSE Accepted(r2, pc2.stages)]
  /\ pc' = [pc EXCEPT ![p] = "mw_done"]
  /\ UNCHANGED <<keySet, readers, writer, handler, epoch, fetchedSets, loc, cfg, log, ext>>

\* The middleware has returned; the goroutine is free for the next request.
MwFinish(p) ==
  /\ pc[p] = "mw_done"
  /\ pc' = [pc EXCEPT ![p] = "idle"]
  /\ req' = [req EXCEPT ![p] = NoReq]
  /\ loc' = [loc EXCEPT ![p] = InitLoc]
  /\ UNCHANGED <<keySet, readers, writer, handler, epoch, fetchedSets, cfg, log, ext>>

\* The goroutine that serves the requests.
ReqProc == 1

\* The value of a source that carries a token is the token's string.
HeaderValues ==
  {<<>>, Bearer, Bearer \o <<" ", "h">>, Basic \o <<" ", "h">>,
   Bearer \o <<"h", "h">>}

\* The protected headers a string can carry.
Heads ==
  {NoHead} \cup [parse : {TRUE}, nsig : {0, 1, 2}, kid : {NoKid} \cup Kids,
                 typ : {"", "JWT", "at+jwt"}]

\* The signatures and claims a token can carry.
Payloads ==
  [sigkey : {NoKid} \cup Kids, exp : {Now - 15, Now - 5, Now + 5, Now + 15},
   iss : {"iss", "iss/", ""}, aud : {<<>>, <<"a">>, <<"b", "a">>, <<"b">>}]

\* Configurations that differ in what parseToken requires of a token.
MwBase == [NoCfg EXCEPT !.Issuer = "iss", !.JwksUri = "jwks"]

MwConfigs ==
  {[MwBase EXCEPT !.Issuer = ""], [MwBase EXCEPT !.JwksUri = ""]} \cup
  {[MwBase EXCEPT !.RequiredTokenType = t, !.RequiredAudience = a,
                  !.AllowedTokenDrift = d] :
     t \in {"", "JWT"}, a \in {"", "a"}, d \in {0, 3}}

\* Requests whose only source is the Authorization header.
MwSources ==
  {[NoSources EXCEPT !.header = v] : v \in {<<>>, Bearer \o <<" ", "h">>}}

\* The middleware serving one request at a time, the issuer rotating its keys.
NextMw ==
  \/ \E c \in MwConfigs : OIDCWithConfigOK(c)
  \/ \E c \in MwConfigs : OIDCWithConfigPanic(c)
  \/ RotateKeys
  \/ \E src \in MwSources, h \in Heads : MwRequest(ReqProc, src, h)
  \/ HandlerStep(ReqProc)
  \/ \E pl \in Payloads : MwResolved(ReqProc, pl)
  \/ MwFinish(ReqProc)

SpecMw == Init /\ [][NextMw]_vars

\* Configurations that differ in where the token is looked up.
ExtractConfigs ==
  {[MwBase EXCEPT !.TokenLookup = l] :
     l \in {<<>>, <<"header", "query">>, <<"query", "header">>,
            <<"cookie", "query", "header">>, <<"param", "form", "header">>}}

\* Requests that carry a token, or none, in each of the sources.
ExtractSources ==
  [header : HeaderValues, query : {<<>>, <<"q">>}, param : {<<>>, <<"p">>},
   form : {<<>>, <<"f">>}, cookie : {<<>>, <<"c">>}, hasCookie : BOOLEAN]

ExtractHeads == {NoHead, [parse |-> TRUE, nsig |-> 1, kid |-> 1, typ |-> "JWT"]}

ExtractPayloads ==
  {[sigkey |-> 1, exp |-> Now + 15, iss |-> i, aud |-> <<>>] : i \in {"iss", ""}}

\* The middleware serving requests whose token may be in any source.
NextExtract ==
  \/ \E c \in ExtractConfigs : OIDCWithConfigOK(c)
  \/ \E c \in ExtractConfigs : OIDCWithConfigPanic(c)
  \/ RotateKeys
  \/ \E src \in ExtractSources, h \in ExtractHeads : MwRequest(ReqProc, src, h)
  \/ HandlerStep(ReqProc)
  \/ \E pl \in ExtractPayloads : MwResolved(ReqProc, pl)
  \/ MwFinish(ReqProc)

SpecExtract == Init /\ [][NextExtract]_vars

\* Configurations that differ in the functions the middleware is given.
HookConfigs ==
  {[MwBase EXCEPT !.Skipper = k, !.BeforeFunc = b, !.SuccessHandler = sh,
                  !.ErrorHandler = eh, !.ErrorHandlerWithContext = ec,
                  !.ContextKey = ck] :
     k \in {"nil", "custom"}, b \in BOOLEAN, sh \in BOOLEAN, eh \in BOOLEAN,
     ec \in BOOLEAN, ck \in {"", "claims"}}

\* The middleware with its Skipper and handlers, serving one request at a time.
NextHooks ==
  \/ \E c \in HookConfigs : OIDCWithConfigOK(c)
  \/ \E c \in HookConfigs : OIDCWithConfigPanic(c)
  \/ RotateKeys
  \/ MwSkipped(ReqProc)
  \/ \E src \in MwSources, h \in ExtractHeads : MwRequest(ReqProc, src, h)
  \/ HandlerStep(ReqProc)
  \/ \E pl \in ExtractPayloads : MwResolved(ReqProc, pl)
  \/ MwFinish(ReqProc)

SpecHooks == Init /\ [][NextHooks]_vars

\* ------------------------------------------------- the sequential test

\* Number of calls and rotations of the test that the history keeps.
MaxLog == 4

\* The test's only goroutine.
TestProc == 1

\* A call of getByKeyID as the test sees it: the key id asked for, the
\* handler's key set before the call and after it, and what the call returned.
CallEntry(k) ==
  [op |-> "resolve", kid |-> k, before |-> keySet, after |-> keySet,
   key |-> NoKey, err |-> "none", nfetch |-> 0, nlookup |-> 0, done |-> FALSE]

ReturnEntry(e, l) ==
  [e EXCEPT !.after = keySet, !.key = l.key, !.err = l.err,
            !.nfetch = l.nfetch, !.nlookup = l.nlookup, !.done = TRUE]

\* A rotation as the test sees it: the sets served before and after it.
RotateEntry(e) ==
  [op |-> "rotate", kid |-> e + 1, before |-> KeySetAt(e - 1), after |-> KeySetAt(e),
   key |-> NoKey, err |-> "none", nfetch |-> 0, nlookup |-> 0, done |-> TRUE]

Record(entry) == IF Len(log) < MaxLog THEN Append(log, entry) ELSE log

\* op.RotateKeys(t), between two calls of the test.
TestRotateKeys ==
  /\ handler = "ready"
  /\ pc[TestProc] = "idle"
  /\ epoch < MaxRotations
  /\ epoch' = epoch + 1
  /\ log' = Record(RotateEntry(epoch + 1))
  /\ UNCHANGED <<keySet, readers, writer, handler, fetchedSets, pc, loc, cfg, req, ext>>

\* keyHandler.getByKeyID(k, false), called by the test.
TestCall(k) ==
  /\ handler = "ready"
  /\ pc[TestProc] = "idle"
  /\ pc' = [pc EXCEPT ![TestProc] = "rlock"]
  /\ loc' = [loc EXCEPT ![TestProc] = [InitLoc EXCEPT !.keyID = k]]
  /\ log' = Record(CallEntry(k))
  /\ UNCHANGED <<keySet, readers, writer, handler, epoch, fetchedSets, cfg, req, ext>>

\* The call returns to the test, which notes the result.
TestReturn ==
  /\ pc[TestProc] = "done"
  /\ pc' = [pc EXCEPT ![TestProc] = "idle"]
  /\ loc' = [loc EXCEPT ![TestProc] = InitLoc]
  /\ log' = IF Len(log) > 0 /\ ~log[Len(log)].done
              THEN [log EXCEPT ![Len(log)] = ReturnEntry(@, loc[TestProc])]
              ELSE log
  /\ UNCHANGED <<keySet, readers, writer, handler, epoch, fetchedSets, cfg, req, ext>>

NextTest ==
  \/ NewKeyHandlerOK
  \/ NewKeyHandlerFail
  \/ TestRotateKeys
  \/ \E k \in Kids : TestCall(k)
  \/ HandlerStep(TestProc)
  \/ TestReturn

\* TestNewKeyHandler, with any key ids and any order of calls and rotations.
SpecTest == Init /\ [][NextTest]_vars

\* ------------------------------------------------------------------ claims

\* The call of p has returned after its first lookup missed and its refresh
\* succeeded.
MissedAndRefreshed(p) ==
  pc[p] = "done" /\ loc[p].missed /\ loc[p].err # "fetch"

\* The result of a lookup of p's key id in a key set, as getByKeyID reports it.
ResultFrom(p, set) ==
  LET r == LookupKeyID(set, loc[p].keyID)
  IN IF r.found THEN loc[p].key = r.key /\ loc[p].err = "none"
     ELSE loc[p].key = NoKey /\ loc[p].err = "notfound"

\* C1 as stated: a call whose first lookup missed makes exactly one fetch and
\* one more lookup, and returns the key iff the key set its own refresh obtained
\* contains the key id, under any interleaving.
C1_Original ==
  \A p \in Procs :
    MissedAndRefreshed(p) =>
      /\ loc[p].nfetch = 1
      /\ loc[p].nlookup = 2
      /\ ResultFrom(p, loc[p].fetched)

\* C1 amended: a call whose first lookup missed makes exactly one fetch; when
\* the fetch fails there is no further lookup; otherwise there is exactly one
\* more lookup, in the key set installed at that moment (a set some fetch of this
\* handler returned), which is the set the call's own refresh obtained unless
\* another refresh's assignment came in between; the call returns the key found
\* there, or key-not-found.
C1_RefreshOnceThenRetry ==
  \A p \in Procs :
    (pc[p] = "done" /\ loc[p].missed) =>
      /\ loc[p].nfetch = 1
      /\ loc[p].err = "fetch" => loc[p].nlookup = 1 /\ loc[p].key = NoKey
      /\ loc[p].err # "fetch" =>
           /\ loc[p].nlookup = 2
           /\ loc[p].ks \in fetchedSets
           /\ ResultFrom(p, loc[p].ks)
           /\ ~loc[p].overwritten => loc[p].ks = loc[p].fetched

\* C1 witness: a call that missed, refreshed, found the key in its own refreshed
\* set and returned it, while another call was refreshing too.
C1_Witness ==
  \E p, q \in Procs :
    /\ p # q
    /\ MissedAndRefreshed(p)
    /\ loc[p].err = "none"
    /\ loc[p].ks = loc[p].fetched
    /\ pc[q] \in {"fetch", "lock"}

\* The key set holds a key with this key id.
HasKid(set, k) == LookupKeyID(set, k).found

\* Entries i, i+1, i+2 of the test's history are: a call that found key id a
\* without a fetch, a rotation to a set without a, and a call for a key id b of
\* the rotated set whose fetch did not fail.
RotationAt(i) ==
  /\ i + 2 <= Len(log)
  /\ log[i].op = "resolve" /\ log[i].done
  /\ log[i].err = "none" /\ log[i].nfetch = 0
  /\ log[i + 1].op = "rotate"
  /\ ~HasKid(log[i + 1].after, log[i].kid)
  /\ log[i + 2].op = "resolve" /\ log[i + 2].done
  /\ HasKid(log[i + 1].after, log[i + 2].kid)
  /\ log[i + 2].err # "fetch"

\* C2: in the sequential test, a call for a key id of the cached set succeeds
\* without a fetch and leaves the cache alone; after a rotation that drops that
\* key, a call for a key id of the rotated set misses once, makes one fetch and
\* returns the rotated key, the cache then is exactly the rotated set, and a
\* later call for the dropped key id (whose fetch does not fail) fails with
\* key-not-found.
C2_Rotation ==
  /\ \A i \in 1..Len(log) :
       (log[i].op = "resolve" /\ log[i].done /\ HasKid(log[i].before, log[i].kid)) =>
          /\ log[i].err = "none" /\ log[i].key = Key(log[i].kid)
          /\ log[i].nfetch = 0 /\ log[i].nlookup = 1
          /\ log[i].after = log[i].before
  /\ \A i \in 1..Len(log) :
       RotationAt(i) =>
          /\ log[i + 2].err = "none" /\ log[i + 2].key = Key(log[i + 2].kid)
          /\ log[i + 2].nfetch = 1 /\ log[i + 2].nlookup = 2
          /\ log[i + 2].after = log[i + 1].after
          /\ (/\ i + 3 <= Len(log)
              /\ log[i + 3].op = "resolve" /\ log[i + 3].done
              /\ log[i + 3].kid = log[i].kid
              /\ log[i + 3].err # "fetch")
             => log[i + 3].err = "notfound" /\ log[i + 3].key = NoKey

\* C2 witness: the test's scenario in full: k1 found in the cache {k1}, the
\* rotation to {k2}, k2 found after one fetch, then k1 no longer found.
C2_Witness ==
  /\ Len(log) = 4
  /\ RotationAt(1)
  /\ log[1].kid = 1 /\ log[1].before = KeySetAt(0)
  /\ log[3].kid = 2 /\ log[3].after = KeySetAt(1)
  /\ log[4].op = "resolve" /\ log[4].done /\ log[4].kid = 1
  /\ log[4].err = "notfound"

\* C4: once the handler is constructed, the installed key set and every key
\* set a reader obtained from getKeySet is a complete set that a successful
\* fetch of this handler returned: never nil, never torn.
C4_ReadersSeeFetchedSets ==
  /\ (\E p \in Procs : pc[p] # "idle") => handler = "ready"
  /\ handler = "ready" => keySet \in fetchedSets /\ keySet.tag = "set"
  /\ \A p \in Procs :
       (pc[p] = "update" \/ (pc[p] = "done" /\ loc[p].err # "fetch")) =>
         loc[p].ks \in fetchedSets /\ loc[p].ks.tag = "set"

\* C4 witness: a reader that made no fetch of its own has obtained the set a
\* concurrent refresh installed, while another refresh holds the write lock.
C4_Witness ==
  \E p, q \in Procs :
    /\ p # q
    /\ pc[p] = "done" /\ loc[p].nfetch = 0
    /\ loc[p].ks = KeySetAt(1)
    /\ pc[q] = "write"

\* Steps left in a call of getByKeyID, at most.
Rank(p) ==
  CASE pc[p] = "idle" -> 0
    [] pc[p] = "done" -> 1
    [] pc[p] = "read" -> IF loc[p].retry THEN 2 ELSE 9
    [] pc[p] = "rlock" -> IF loc[p].retry THEN 3 ELSE 10
    [] pc[p] = "write" -> 4
    [] pc[p] = "lockwait" -> 5
    [] pc[p] = "lock" -> 6
    [] pc[p] = "fetch" -> 7
    [] pc[p] = "update" -> 8
    [] OTHER -> 11

\* A goroutine that holds the RWMutex, for reading or for writing.
Holders == readers \cup (IF writer = NoProc THEN {} ELSE {writer})

\* A call in progress can step, or waits for a lock whose holder can step; it
\* has made at most two lookups and one fetch, one level deep.
BoundedNoDeadlock ==
  \A p \in Procs :
    /\ loc[p].nlookup <= 2
    /\ loc[p].nfetch <= 1
    /\ loc[p].depth <= 1
    /\ pc[p] # "idle" =>
         \/ ENABLED (HandlerStep(p) \/ Return(p))
         \/ \E q \in Holders \ {p} : ENABLED HandlerStep(q)

\* Every step of a call in progress brings it nearer to its return.
RankDecreases ==
  \A p \in Procs :
    (pc[p] # "idle" /\ <<pc[p], loc[p].retry>>' # <<pc[p], loc[p].retry>>)
      => Rank(p)' < Rank(p)

\* C5: concurrent getByKeyID calls interleaved with rotations never deadlock,
\* and every call returns after at most two lookups and one refresh, one level
\* of recursion: no call in progress is stuck, and each of its steps is one of
\* at most ten towards its return.
C5_BoundedNoDeadlock == []BoundedNoDeadlock /\ [][RankDecreases]_vars

\* C5 witness: a call has returned after two lookups and one refresh while
\* another call is blocked on the lock a third party holds.
C5_Witness ==
  \E p, q \in Procs :
    /\ p # q
    /\ pc[p] = "done" /\ loc[p].nlookup = 2 /\ loc[p].nfetch = 1
    /\ pc[q] = "rlock" /\ loc[q].retry /\ epoch = MaxRotations

\* C6: the write lock is held only around the assignment. A goroutine whose
\* fetch is in progress holds no lock, the read lock is held only inside
\* getKeySet, and a reader is never kept out by other readers or by a fetch:
\* RLock can be taken whenever no writer holds or has announced the lock.
C6_NoLockDuringFetch ==
  \A p \in Procs :
    /\ pc[p] \in {"update", "fetch", "lock"} => p \notin readers /\ writer # p
    /\ writer = p => pc[p] \in {"lockwait", "write"}
    /\ p \in readers => pc[p] = "read"
    /\ (pc[p] = "rlock" /\ writer = NoProc) => ENABLED RLock(p)
    /\ pc[p] = "read" => ENABLED GetKeySetReturn(p)

\* C6 witness: one goroutine's fetch is in progress while another holds the
\* read lock inside getKeySet.
C6_Witness ==
  \E p, q \in Procs : pc[p] = "fetch" /\ pc[q] = "read" /\ q \in readers

\* ------------------------------------------------ claims on the middleware

Range(seq) == {seq[i] : i \in 1..Len(seq)}

IsPrefix(a, b) == Len(a) <= Len(b) /\ SubSeq(b, 1, Len(a)) = a

Finished(p) == pc[p] = "mw_done"

\* C3: parseToken rejects a signature-verified token as expired exactly when
\* its expiration plus AllowedTokenDrift is strictly before the current time.
C3_Original ==
  \A p \in Procs :
    Finished(p) /\ "exp" \in Range(req[p].stages) =>
      ((req[p].reason = "expired") <=>
         (req[p].payload.exp + cfg.AllowedTokenDrift < Now))

\* The extractors of the configuration, and what each finds in p's request.
Chain == Extractors(cfg.TokenLookup)

Finds(p, kind) == Extract(kind, cfg, req[p].sources)

\* C7: the configured extractors are tried in configured order; the token used
\* for validation is the one returned by the first extractor that reports
\* found and no extractor after it is invoked; when every extractor reports
\* not-found the request is rejected as token-missing without a call of
\* parseToken.
C7_FirstFoundWins ==
  \A p \in Procs :
    req[p].active =>
      LET r == req[p]
          n == Len(r.invoked)
      IN /\ IsPrefix(r.invoked, Chain)
         /\ n >= 1
         /\ \A i \in 1..(n - 1) : ~Finds(p, r.invoked[i]).found
         /\ IF \E i \in 1..Len(Chain) : Finds(p, Chain[i]).found
              THEN /\ Finds(p, r.invoked[n]).found
                   /\ r.auth = Finds(p, r.invoked[n]).token
                   /\ "header" \in Range(r.stages)
                   /\ r.reason # "missing"
              ELSE /\ r.invoked = Chain
                   /\ r.outcome = "rejected" /\ r.reason = "missing"
                   /\ r.stages = <<"extract">>
                   /\ pc[p] = "mw_done"

\* The second of three extractors found the token, the third one's source
\* carries another token.
C7_Witness ==
  \E p \in Procs :
    /\ Finished(p) /\ Len(Chain) = 3 /\ Len(req[p].invoked) = 2
    /\ Finds(p, Chain[3]).found
    /\ Finds(p, Chain[3]).token # req[p].auth
    /\ req[p].outcome = "accepted"

\* C8: a token with more than one signature is always rejected with the
\* "more than one signature" error, whatever else it carries, and its
\* validation never calls the key cache: no lookup, no refresh.
C8_MultiSignatureRejected ==
  \A p \in Procs :
    req[p].active /\ req[p].head.nsig > 1 =>
      /\ pc[p] = "mw_done"
      /\ req[p].outcome = "rejected" /\ req[p].reason = "multisig"
      /\ "resolve" \notin Range(req[p].stages)
      /\ loc[p] = InitLoc
      /\ keySet = req[p].cache0

\* A token with two signatures whose key id is in the cache was rejected.
C8_Witness ==
  \E p \in Procs :
    /\ Finished(p) /\ req[p].head.nsig = 2 /\ req[p].reason = "multisig"
    /\ HasKid(keySet, req[p].head.kid)
    /\ cfg.RequiredTokenType = ""

\* The stages a request passes to be accepted under configuration c.
StageOrder(c) ==
  <<"extract", "header">>
    \o (IF c.RequiredTokenType # "" THEN <<"type">> ELSE <<>>)
    \o <<"resolve", "verify", "exp", "iss">>
    \o (IF c.RequiredAudience # "" THEN <<"aud">> ELSE <<>>)

\* The stage a rejection reason belongs to.
StageOf(reason) ==
  CASE reason = "missing" -> "extract"
    [] reason \in {"malformed", "multisig", "nokid"} -> "header"
    [] reason \in {"notype", "typemismatch"} -> "type"
    [] reason \in {"notfound", "fetch"} -> "resolve"
    [] reason = "signature" -> "verify"
    [] reason = "expired" -> "exp"
    [] reason = "issuer" -> "iss"
    [] reason = "audience" -> "aud"
    [] OTHER -> "none"

\* What p's request and token are, stage by stage.
StagePasses(st, p) ==
  LET r == req[p]
  IN CASE st = "extract" -> \E i \in 1..Len(Chain) : Finds(p, Chain[i]).found
       [] st = "header" -> r.head.parse /\ r.head.nsig = 1 /\ r.head.kid # NoKid
       [] st = "type" -> r.head.typ = cfg.RequiredTokenType
       [] st = "resolve" -> HasKid(keySet, r.head.kid)
       [] st = "verify" -> Verifies(r.payload, LookupKeyID(keySet, r.head.kid).key)
       [] st = "exp" -> ~TokenExpired(r.payload.exp, cfg.AllowedTokenDrift, Now)
       [] st = "iss" -> r.payload.iss = cfg.Issuer
       [] st = "aud" -> cfg.RequiredAudience \in Range(r.payload.aud)
       [] OTHER -> FALSE

\* C9: a request is accepted only after passing, in this order, extraction,
\* header parse with a key id, type check when required, key resolution,
\* signature verification, expiration, issuer and audience; the first stage
\* that fails gives the rejection reason and no later stage is executed.
C9_StageOrder ==
  \A p \in Procs :
    Finished(p) =>
      LET r == req[p]
          n == Len(r.stages)
      IN /\ IsPrefix(r.stages, StageOrder(cfg))
         /\ n >= 1
         /\ \A i \in 1..(n - 1) : StagePasses(r.stages[i], p)
         /\ r.outcome \in {"accepted", "rejected"}
         /\ r.outcome = "accepted" =>
              r.stages = StageOrder(cfg) /\ StagePasses(r.stages[n], p)
         /\ r.outcome = "rejected" =>
              StageOf(r.reason) = r.stages[n] /\ ~StagePasses(r.stages[n], p)

\* A token both expired and of another issuer was rejected as expired, under
\* a configuration that requires a type and an audience.
C9_Witness ==
  \E p \in Procs :
    /\ Finished(p) /\ req[p].reason = "expired"
    /\ req[p].payload.iss # cfg.Issuer
    /\ cfg.RequiredTokenType # "" /\ cfg.RequiredAudience # ""

\* C10: a token with one signature, whose key id is in the cached key set,
\* whose signature verifies under that key, which is not expired, whose
\* issuer is the configured one and which meets the type and audience
\* requirements, is accepted without a refresh, as the token of that string.
C10_Original ==
  \A p \in Procs :
    LET r == req[p]
    IN (/\ Finished(p)
        /\ r.head.parse /\ r.head.nsig = 1
        /\ HasKid(r.cache0, r.head.kid)
        /\ Verifies(r.payload, LookupKeyID(r.cache0, r.head.kid).key)
        /\ r.payload.exp > Now
        /\ r.payload.iss = cfg.Issuer
        /\ cfg.RequiredTokenType # "" => r.head.typ = cfg.RequiredTokenType
        /\ cfg.RequiredAudience # "" => cfg.RequiredAudience \in Range(r.payload.aud))
       => r.outcome = "accepted" /\ loc[p].nfetch = 0

\* The number of error handlers the middleware called for p's request.
ErrorCalls(p) == req[p].calls.error + req[p].calls.errorCtx

\* C11: a request that is not skipped ends in exactly one of two ways.
\* Accepted: the validated token is in the request's context under ContextKey,
\* the success callback was called once and the next handler was called.
\* Rejected: one error callback was called once, or the default error is
\* returned, nothing is in the context and the next handler was not called.
C11_OneOutcome ==
  \A p \in Procs :
    LET r == req[p]
    IN /\ Finished(p) /\ ~r.skipped =>
            \/ /\ r.outcome = "accepted"
               /\ r.ctx = <<[key |-> cfg.ContextKey, auth |-> r.auth,
                             head |-> r.head, payload |-> r.payload]>>
               /\ r.calls.success = (IF cfg.SuccessHandler THEN 1 ELSE 0)
               /\ r.calls.next = 1 /\ r.resp.by = "next"
               /\ ErrorCalls(p) = 0
            \/ /\ r.outcome = "rejected"
               /\ r.ctx = <<>>
               /\ r.calls.next = 0 /\ r.calls.success = 0
               /\ IF cfg.ErrorHandler \/ cfg.ErrorHandlerWithContext
                    THEN ErrorCalls(p) = 1 /\ r.resp.by # "default"
                    ELSE ErrorCalls(p) = 0 /\ r.resp.by = "default"
       /\ r.active /\ ~Finished(p) =>
            r.ctx = <<>> /\ r.calls.next = 0 /\ r.calls.success = 0
                        /\ ErrorCalls(p) = 0

\* Requests end both ways under a configuration with every handler set: this
\* one was rejected after key resolution and ErrorHandler alone was called.
C11_Witness ==
  \E p \in Procs :
    /\ Finished(p) /\ req[p].outcome = "rejected" /\ req[p].reason = "issuer"
    /\ cfg.ErrorHandler /\ cfg.ErrorHandlerWithContext /\ cfg.SuccessHandler
    /\ req[p].calls.error = 1 /\ req[p].calls.errorCtx = 0

NoErrorHandler == ~cfg.ErrorHandler /\ ~cfg.ErrorHandlerWithContext

\* C12 as stated: with no custom error handler a request rejected as
\* TokenMissing or MalformedToken gets HTTP 400, a request rejected for any
\* other reason HTTP 401, and the returned error carries the reason.
C12_Original ==
  \A p \in Procs :
    Finished(p) /\ req[p].outcome = "rejected" /\ NoErrorHandler =>
      /\ req[p].resp.code =
           (IF req[p].reason \in {"missing", "malformed"} THEN 400 ELSE 401)
      /\ req[p].resp.err = req[p].reason

\* C12, amended: with no custom error handler a request rejected because no
\* extractor found a token gets HTTP 400 and a request rejected for any other
\* reason, an unparsable token included, gets HTTP 401; the returned error
\* carries the reason.
C12_DefaultResponse ==
  \A p \in Procs :
    Finished(p) /\ req[p].outcome = "rejected" /\ NoErrorHandler =>
      /\ req[p].resp.by = "default"
      /\ req[p].resp.code = (IF req[p].reason = "missing" THEN 400 ELSE 401)
      /\ req[p].resp.err = req[p].reason

\* A request whose token is no JWS message was answered with HTTP 401.
C12_Witness ==
  \E p \in Procs :
    /\ Finished(p) /\ NoErrorHandler
    /\ req[p].reason = "malformed" /\ req[p].auth # <<>>
    /\ req[p].resp.code = 401

\* C13: when the refresh after a miss fails, getByKeyID returns an error and
\* no key, without a second lookup or another fetch, and the validation is
\* rejected with that error: the middleware returns, it does not panic.
C13_FetchFailedIsFatal ==
  \A p \in Procs :
    loc[p].err = "fetch" =>
      /\ pc[p] \in {"done", "mw_done"}
      /\ loc[p].key = NoKey
      /\ loc[p].nlookup = 1 /\ loc[p].nfetch = 1 /\ loc[p].depth = 0
      /\ keySet = req[p].cache0
      /\ Finished(p) =>
           /\ req[p].outcome = "rejected" /\ req[p].reason = "fetch"
           /\ req[p].stages[Len(req[p].stages)] = "resolve"
           /\ req[p].payload = NoPayload
           /\ req[p].resp.by = "default" /\ req[p].resp.code = 401
           /\ req[p].resp.err = "fetch"

\* A request whose key id missed in the cache was rejected because the fetch
\* failed, while the endpoint did serve a key with that id.
C13_Witness ==
  \E p \in Procs :
    /\ Finished(p) /\ req[p].reason = "fetch"
    /\ HasKid(served, req[p].head.kid)
    /\ ~HasKid(keySet, req[p].head.kid)

\* C14: a token whose protected header has no key id is rejected with the
\* missing-key-id error under every policy, before any type check and any
\* access to the key cache; a token with a key id has exactly that key id
\* looked up.
C14_KeyIDRequired ==
  \A p \in Procs :
    LET r == req[p]
    IN r.active /\ r.head.parse /\ r.head.nsig = 1 =>
         IF r.head.kid = NoKid
           THEN /\ Finished(p)
                /\ r.outcome = "rejected" /\ r.reason = "nokid"
                /\ r.stages = <<"extract", "header">>
                /\ loc[p] = InitLoc
                /\ keySet = r.cache0
           ELSE /\ r.reason # "nokid"
                /\ loc[p] # InitLoc => loc[p].keyID = r.head.kid
                /\ "resolve" \in Range(r.stages) => loc[p].keyID = r.head.kid

\* A token without key id and without type was rejected for its key id under
\* a configuration that requires a type.
C14_Witness ==
  \E p \in Procs :
    /\ Finished(p) /\ req[p].reason = "nokid"
    /\ cfg.RequiredTokenType # "" /\ req[p].head.typ = ""

TypeErrors == {"notype", "typemismatch"}

\* C15: the type is checked only when RequiredTokenType is set: then a token
\* that declares no type is rejected with the missing-type error and one that
\* declares another type with the type-mismatch error; when RequiredTokenType
\* is empty no declared type, present or absent, causes a rejection.
C15_TypeGating ==
  \A p \in Procs :
    LET r == req[p]
    IN r.active /\ r.head.parse /\ r.head.nsig = 1 /\ r.head.kid # NoKid =>
         IF cfg.RequiredTokenType = ""
           THEN r.reason \notin TypeErrors /\ "type" \notin Range(r.stages)
         ELSE IF r.head.typ = ""
           THEN Finished(p) /\ r.outcome = "rejected" /\ r.reason = "notype"
                            /\ loc[p] = InitLoc
         ELSE IF r.head.typ # cfg.RequiredTokenType
           THEN Finished(p) /\ r.outcome = "rejected" /\ r.reason = "typemismatch"
                            /\ loc[p] = InitLoc
         ELSE r.reason \notin TypeErrors /\ "type" \in Range(r.stages)

\* With no required type, a token declaring a type and one declaring none
\* are accepted alike; this is the one that declares none.
C15_Witness ==
  \E p \in Procs :
    /\ Finished(p) /\ cfg.RequiredTokenType = ""
    /\ req[p].head.typ = "" /\ req[p].outcome = "accepted"

\* The signature of p's token was verified: parseToken went on to the claims.
SignatureVerified(p) == "exp" \in Range(req[p].stages)

\* C16: a signature-verified, unexpired token is rejected with the
\* issuer-mismatch error whenever its issuer is not string-equal to the
\* configured Issuer (absent, or differing by a trailing slash), and is never
\* rejected for its issuer when the two are equal.
C16_Original ==
  \A p \in Procs :
    LET r == req[p]
    IN Finished(p) /\ SignatureVerified(p) /\ r.payload.exp > Now =>
         IF r.payload.iss # cfg.Issuer
           THEN r.outcome = "rejected" /\ r.reason = "issuer"
           ELSE r.reason # "issuer"

\* p's token passed the issuer check: parseToken went on to the audience.
IssuerPassed(p) ==
  "iss" \in Range(req[p].stages) /\ req[p].reason # "issuer"

\* C17: the audience is checked only when RequiredAudience is set: then the
\* token is rejected with the audience-mismatch error exactly when
\* RequiredAudience is not an element of its audience list, wherever it
\* stands and whatever else the list holds; when RequiredAudience is empty no
\* token is rejected for its audience.
C17_AudienceGating ==
  \A p \in Procs :
    LET r == req[p]
    IN /\ r.reason = "audience" =>
            /\ cfg.RequiredAudience # "" /\ IssuerPassed(p)
            /\ r.outcome = "rejected"
       /\ Finished(p) /\ IssuerPassed(p) =>
            IF cfg.RequiredAudience = ""
              THEN r.outcome = "accepted" /\ "aud" \notin Range(r.stages)
            ELSE IF cfg.RequiredAudience \in Range(r.payload.aud)
              THEN r.outcome = "accepted"
            ELSE r.outcome = "rejected" /\ r.reason = "audience"

\* A token whose second audience is the required one was accepted.
C17_Witness ==
  \E p \in Procs :
    /\ Finished(p) /\ req[p].outcome = "accepted"
    /\ cfg.RequiredAudience = "a" /\ req[p].payload.aud = <<"b", "a">>

Panics == {"panic: issuer", "panic: discovery", "panic: fetch"}

\* There is a middleware only after a construction with an issuer, a JwksUri
\* given or discovered, and a fetched key set in the cache; without one no
\* request is served and no key set is cached.
FailFast ==
  /\ handler \in {"none", "ready"} \cup Panics
  /\ handler = "ready" =>
       /\ cfg.Issuer # "" /\ cfg.JwksUri # ""
       /\ keySet # NilSet /\ keySet \in fetchedSets
  /\ handler # "ready" =>
       /\ keySet = NilSet /\ fetchedSets = {}
       /\ \A p \in Procs : pc[p] = "idle" /\ ~req[p].active
  /\ \A p \in Procs : req[p].active => req[p].cache0 # NilSet
  /\ handler = "panic: issuer" <=> (cfg.Issuer = "" /\ cfg # NoCfg)
  /\ handler = "panic: discovery" => cfg.JwksUri = ""

\* A construction that panicked stays failed.
PanicIsFinal == handler \in Panics => handler' = handler

\* C18: OIDCWithConfig panics, and returns no middleware, when Issuer is
\* empty, when the JwksUri has to be discovered and the discovery fails, or
\* when newKeyHandler's first fetch fails and it returns no handler: no
\* request is ever validated against a cache that was never filled.
C18_FailFast == []FailFast /\ [][PanicIsFinal]_vars

\* The construction panicked in the discovery: the issuer was set, no JwksUri
\* was given, and nothing is served.
C18_Witness ==
  /\ handler = "panic: discovery"
  /\ cfg.Issuer # "" /\ cfg.JwksUri = ""
  /\ \A p \in Procs : pc[p] = "idle"

\* The positions of a call inside updateKeySet.
RefreshPcs == {"update", "fetch", "lock", "lockwait", "write"}

\* Only a call whose first lookup missed is in updateKeySet or has fetched; a
\* call whose first lookup found the key has returned it without a fetch.
RefreshOnlyAfterMiss ==
  \A p \in Procs :
    /\ pc[p] \in RefreshPcs \/ loc[p].nfetch > 0 =>
         loc[p].missed /\ loc[p].nlookup >= 1
    /\ loc[p].nlookup >= 1 /\ ~loc[p].missed =>
         /\ pc[p] = "done" /\ loc[p].nfetch = 0 /\ loc[p].nlookup = 1
         /\ loc[p].err = "none" /\ loc[p].key.kid = loc[p].keyID

\* A step that changes the cached key set, or fetches, is the construction or
\* a step of updateKeySet in a call whose first lookup missed.
ChangeOnlyByRefresh ==
  /\ keySet' # keySet =>
       \/ handler = "none" /\ handler' = "ready" /\ keySet' = served
       \/ \E p \in Procs :
            /\ pc[p] = "write" /\ loc[p].missed /\ loc[p].nfetch = 1
            /\ keySet' = loc[p].fetched /\ loc[p].fetched \in fetchedSets
  /\ fetchedSets' # fetchedSets =>
       \/ handler = "none" /\ handler' = "ready"
       \/ \E p \in Procs : pc[p] = "fetch" /\ loc[p].missed

\* C19: the cached key set changes only by a successful updateKeySet, which
\* runs only at construction or from a getByKeyID call whose first lookup
\* missed; a call whose first lookup finds the key performs no fetch and
\* leaves the cache unchanged.
C19_RefreshIsReactive == []RefreshOnlyAfterMiss /\ [][ChangeOnlyByRefresh]_vars

\* One call has returned the key its first lookup found, without a fetch,
\* while another call, which missed, is assigning the set it fetched.
C19_Witness ==
  \E p, q \in Procs :
    /\ pc[p] = "done" /\ ~loc[p].missed /\ loc[p].nfetch = 0
    /\ loc[p].key.kid = loc[p].keyID /\ loc[p].keyID # NoKid
    /\ pc[q] = "write" /\ loc[q].missed /\ loc[q].fetched # keySet

\* C20: no single flight. Every getByKeyID call whose first lookup missed
\* performs its own fetch, so N concurrent misses make N fetches; its fetch is
\* never held up by another call's refresh, and it goes on to its second
\* lookup only after its own fetch, with the set that fetch returned as the
\* one it assigns.
C20_NoSingleFlight ==
  \A p \in Procs :
    /\ pc[p] = "update" => ENABLED UpdateKeySetBegin(p)
    /\ pc[p] = "fetch" => ENABLED FetchOK(p) /\ ENABLED FetchFail(p)
    /\ loc[p].missed /\ pc[p] \notin {"read", "update", "fetch"} =>
         loc[p].nfetch = 1
    /\ pc[p] \in {"lock", "lockwait", "write"} =>
         loc[p].fetched # NilSet /\ loc[p].fetched \in fetchedSets
    /\ loc[p].retry => loc[p].nfetch = 1 /\ loc[p].fetched # NilSet

\* Every call missed on the same key id and has fetched, and none has
\* assigned its set yet: as many fetches as calls.
C20_Witness ==
  /\ \A p \in Procs :
       /\ loc[p].missed /\ loc[p].nfetch = 1
       /\ pc[p] \in {"lock", "lockwait", "write"}
  /\ \A p, q \in Procs : loc[p].keyID = loc[q].keyID

\* C21: when the Skipper returns true the middleware calls the next handler
\* directly: BeforeFunc is not run, no extractor is invoked, no token is
\* parsed, the key cache is neither read nor refreshed, nothing is stored
\* under ContextKey and no success or error callback is called.
C21_SkippedRequest ==
  \A p \in Procs :
    req[p].skipped =>
      /\ Finished(p)
      /\ req[p].calls = [NoCalls EXCEPT !.next = 1]
      /\ req[p].resp.by = "next"
      /\ req[p].invoked = <<>> /\ req[p].stages = <<>>
      /\ req[p].auth = <<>> /\ req[p].head = NoHead
      /\ req[p].outcome = "none"
      /\ req[p].ctx = <<>>
      /\ loc[p] = InitLoc
      /\ keySet = req[p].cache0

\* A request was skipped by a middleware that has a BeforeFunc and every
\* handler.
C21_Witness ==
  \E p \in Procs :
    /\ req[p].skipped /\ Finished(p)
    /\ cfg.BeforeFunc /\ cfg.SuccessHandler
    /\ cfg.ErrorHandler /\ cfg.ErrorHandlerWithContext

\* The header extractor was the one that found the token of p's request.
HeaderFound(p) ==
  /\ req[p].invoked # <<>>
  /\ req[p].invoked[Len(req[p].invoked)] = "header"
  /\ "header" \in Range(req[p].stages)

\* The value is the scheme, a space and a non-empty token.
SchemeSpaceToken(v, scheme) ==
  /\ Len(v) > Len(scheme) + 1
  /\ SubSeq(v, 1, Len(scheme)) = scheme
  /\ v[Len(scheme) + 1] = " "

\* C22: the header extractor reports found only when the header value is
\* the configured scheme, a separating space and a non-empty token, and then
\* returns the value without scheme and separator; an absent header, the
\* scheme alone, or a value that does not begin with the scheme followed by
\* a space is reported as not found.
C22_Original ==
  \A p \in Procs :
    LET v == req[p].sources.header
        l == Len(cfg.AuthScheme)
    IN req[p].active /\ "header" \in Range(req[p].invoked) =>
         /\ HeaderFound(p) <=> SchemeSpaceToken(v, cfg.AuthScheme)
         /\ HeaderFound(p) => req[p].auth = SubSeq(v, l + 2, Len(v))

\* ------------------------------------------------- service: Start and wait

\* errgroup.Group.Go: one more goroutine runs in the group.
Go(grp) == [grp EXCEPT !.active = @ + 1]

\* A goroutine of the group returns e: the group keeps its first error.
GoReturn(grp, e) ==
  [grp EXCEPT !.active = @ - 1,
              !.err = IF @ = "nil" /\ e # "nil" THEN e ELSE @]

\* start up to its wait: the WaitGroup is set to 1 and the service is started
\* in the group.
StartBegin ==
  /\ spc.start = "idle"
  /\ wg' = 1
  /\ errGroup' = Go(errGroup)
  /\ spc' = [spc EXCEPT !.start = "wait", !.service = "running"]
  /\ UNCHANGED <<doneCh, timer, sret, oidcVars, channelVars>>

\* waitForWaitGroupWithTimeout up to its select: c is made, the goroutine
\* that waits for the WaitGroup is started and the timer is armed.
WaitBegin ==
  /\ spc.start = "wait"
  /\ doneCh' = "open"
  /\ timer' = "armed"
  /\ spc' = [spc EXCEPT !.start = "select", !.waiter = "waiting"]
  /\ UNCHANGED <<wg, errGroup, sret, oidcVars, channelVars>>

\* The started service calls wg.Done().
ServiceDone ==
  /\ spc.service = "running"
  /\ wg' = wg - 1
  /\ spc' = [spc EXCEPT !.service = "started"]
  /\ UNCHANGED <<errGroup, doneCh, timer, sret, oidcVars, channelVars>>

\* The service's Start returns e, whether or not it has called wg.Done().
ServiceReturn(e) ==
  /\ spc.service \in {"running", "started"}
  /\ errGroup' = GoReturn(errGroup, e)
  /\ spc' = [spc EXCEPT !.service = "returned"]
  /\ UNCHANGED <<wg, doneCh, timer, sret, oidcVars, channelVars>>

\* wg.Wait() returns in the waiting goroutine, which closes c.
WaiterClose ==
  /\ spc.waiter = "waiting"
  /\ wg = 0
  /\ doneCh' = "closed"
  /\ spc' = [spc EXCEPT !.waiter = "exit"]
  /\ UNCHANGED <<wg, errGroup, timer, sret, oidcVars, channelVars>>

\* The timeout elapses.
TimerFires ==
  /\ timer = "armed"
  /\ timer' = "fired"
  /\ UNCHANGED <<wg, errGroup, doneCh, spc, sret, oidcVars, channelVars>>

\* The select receives from c: the wait returns nil and start returns.
SelectDone ==
  /\ spc.start = "select"
  /\ doneCh = "closed"
  /\ spc' = [spc EXCEPT !.start = "returned"]
  /\ sret' = [sret EXCEPT !.start = "nil"]
  /\ UNCHANGED <<wg, errGroup, doneCh, timer, oidcVars, channelVars>>

\* A start that does not report the timeout to the group.
SelectTimeout_NoReport ==
  /\ spc.start = "select"
  /\ timer = "fired"
  /\ spc' = [spc EXCEPT !.start = "returned"]
  /\ sret' = [sret EXCEPT !.start = "timed out"]
  /\ UNCHANGED <<wg, errGroup, doneCh, timer, oidcVars, channelVars>>

\* The select receives from the timer: the wait returns an error, start adds
\* a goroutine returning "timed out waiting for service to start" to the
\* group and returns.
SelectTimeout ==
  /\ spc.start = "select"
  /\ timer = "fired"
  /\ errGroup' = [Go(errGroup) EXCEPT !.timeouts = @ + 1]
  /\ spc' = [spc EXCEPT !.start = "returned", !.report = "running"]
  /\ sret' = [sret EXCEPT !.start = "timed out"]
  /\ UNCHANGED <<wg, doneCh, timer, oidcVars, channelVars>>

\* The goroutine added on a timeout returns its error.
ReportReturn ==
  /\ spc.report = "running"
  /\ errGroup' = GoReturn(errGroup, "timed out waiting for service to start")
  /\ spc' = [spc EXCEPT !.report = "returned"]
  /\ UNCHANGED <<wg, doneCh, timer, sret, oidcVars, channelVars>>

\* Stop, called once Start has returned: the service's Stop is started in
\* the group.
Stop ==
  /\ spc.start = "returned"
  /\ spc.stop = "none"
  /\ spc.wait = "idle"
  /\ errGroup' = Go(errGroup)
  /\ spc' = [spc EXCEPT !.stop = "running"]
  /\ UNCHANGED <<wg, doneCh, timer, sret, oidcVars, channelVars>>

\* The service's Stop returns e.
StopReturn(e) ==
  /\ spc.stop = "running"
  /\ errGroup' = GoReturn(errGroup, e)
  /\ spc' = [spc EXCEPT !.stop = "returned"]
  /\ UNCHANGED <<wg, doneCh, timer, sret, oidcVars, channelVars>>

\* The program calls WaitForErrGroup once Start has returned.
WaitForErrGroupCall ==
  /\ spc.start = "returned"
  /\ spc.wait = "idle"
  /\ spc' = [spc EXCEPT !.wait = "waiting"]
  /\ UNCHANGED <<wg, errGroup, doneCh, timer, sret, oidcVars, channelVars>>

\* g.Wait() returns when no goroutine of the group runs any more;
\* WaitForErrGroup wraps the group's error, or returns nil.
WaitForErrGroupReturn ==
  /\ spc.wait = "waiting"
  /\ errGroup.active = 0
  /\ spc' = [spc EXCEPT !.wait = "returned"]
  /\ sret' = [sret EXCEPT !.wait = IF errGroup.err = "nil" THEN "nil"
                                   ELSE "error groups error"]
  /\ UNCHANGED <<wg, errGroup, doneCh, timer, oidcVars, channelVars>>

\* What a service's Start and Stop can return.
ServiceErrors == {"nil", "service failed"}

NextService ==
  \/ StartBegin
  \/ WaitBegin
  \/ ServiceDone
  \/ \E e \in ServiceErrors : ServiceReturn(e)
  \/ WaiterClose
  \/ TimerFires
  \/ SelectDone
  \/ SelectTimeout
  \/ ReportReturn
  \/ Stop
  \/ \E e \in ServiceErrors : StopReturn(e)
  \/ WaitForErrGroupCall
  \/ WaitForErrGroupReturn

\* The caller of Start runs, and the runtime's timer fires after the timeout;
\* nothing is assumed of the service or of the other goroutines.
SpecService ==
  /\ Init
  /\ [][NextService]_vars
  /\ WF_vars(StartBegin \/ WaitBegin)
  /\ WF_vars(TimerFires)
  /\ WF_vars(SelectDone \/ SelectTimeout)

StartReturned == spc.start = "returned"

\* C23: once Start has returned, either its wait ended without error, the
\* service has called wg.Done() and no timeout was reported to the group, or
\* the timeout elapsed, exactly one "timed out waiting for service to start"
\* goroutine was added to the group and WaitForErrGroup, when it returns,
\* returns an error; and Start returns whatever the service does.
C23_StartOutcome ==
  StartReturned =>
    \/ /\ sret.start = "nil"
       /\ wg = 0
       /\ spc.service \in {"started", "returned"}
       /\ errGroup.timeouts = 0 /\ spc.report = "none"
    \/ /\ sret.start = "timed out"
       /\ timer = "fired"
       /\ errGroup.timeouts = 1
       /\ spc.wait = "returned" => sret.wait = "error groups error"

C23_Start ==
  /\ []C23_StartOutcome
  /\ <>StartReturned
  /\ [](timer = "fired" => <>StartReturned)

C23_Witness ==
  /\ StartReturned /\ sret.start = "timed out"
  /\ wg = 1
  /\ spc.service = "returned" /\ errGroup.err = "timed out waiting for service to start"
  /\ sret.wait = "error groups error"

\* --------------------------------------------------- channels: Merge, Map

\* The input channel Map reads (Merge reads all of them).
MapIn == 1

\* The function handed to Map.
mapFunc(v) == 10 * v

\* A producer sends the next value on input i.  The k-th value sent on a
\* channel is k, so that a value lost, repeated or out of order shows.
Send(i) ==
  /\ ~cs[i].closed
  /\ Len(cs[i].sent) < MaxSend
  /\ LET v == Len(cs[i].sent) + 1
     IN cs' = [cs EXCEPT ![i].buf = Append(@, v), ![i].sent = Append(@, v)]
  /\ UNCHANGED <<out, mergeWg, gpc, consumer, oidcVars, serviceVars>>

\* The producer closes input i.
Close(i) ==
  /\ ~cs[i].closed
  /\ cs' = [cs EXCEPT ![i].closed = TRUE]
  /\ UNCHANGED <<out, mergeWg, gpc, consumer, oidcVars, serviceVars>>

\* Merge(cs...): out is made, wg.Add(len(cs)), one output goroutine per
\* input and the closing goroutine are started.
Merge ==
  /\ ~out.made
  /\ out' = [out EXCEPT !.made = TRUE]
  /\ mergeWg' = NumInputs
  /\ gpc' = [i \in Inputs \cup {Closer} |->
               IF i = Closer THEN [at |-> "wait", n |-> 0]
                             ELSE [at |-> "range", n |-> 0]]
  /\ UNCHANGED <<cs, consumer, oidcVars, serviceVars>>

\* output(c): the range receives the next value of input i.
OutputRecv(i) ==
  /\ gpc[i].at = "range"
  /\ cs[i].buf # <<>>
  /\ gpc' = [gpc EXCEPT ![i] = [at |-> "send", n |-> Head(cs[i].buf)]]
  /\ cs' = [cs EXCEPT ![i].buf = Tail(@)]
  /\ UNCHANGED <<out, mergeWg, consumer, oidcVars, serviceVars>>

\* output(c): out <- n, which the ranging consumer receives (out has no
\* buffer: the send and the receive are one step).
OutputSend(i) ==
  /\ gpc[i].at = "send"
  /\ consumer = "ranging"
  /\ out' = [out EXCEPT !.delivered = Append(@, [from |-> i, v |-> gpc[i].n])]
  /\ gpc' = [gpc EXCEPT ![i].at = "range"]
  /\ UNCHANGED <<cs, mergeWg, consumer, oidcVars, serviceVars>>

\* An output goroutine that leaves its loop when its input is empty.
OutputDone_Early(i) ==
  /\ gpc[i].at = "range"
  /\ cs[i].buf = <<>>
  /\ mergeWg' = mergeWg - 1
  /\ gpc' = [gpc EXCEPT ![i].at = "exit"]
  /\ UNCHANGED <<cs, out, consumer, oidcVars, serviceVars>>

\* output(c): input i is closed and empty, the range ends, wg.Done().
OutputDone(i) ==
  /\ gpc[i].at = "range"
  /\ cs[i].buf = <<>>
  /\ cs[i].closed
  /\ mergeWg' = mergeWg - 1
  /\ gpc' = [gpc EXCEPT ![i].at = "exit"]
  /\ UNCHANGED <<cs, out, consumer, oidcVars, serviceVars>>

\* The closing goroutine: wg.Wait() returns, close(out).
CloserClose ==
  /\ gpc[Closer].at = "wait"
  /\ mergeWg = 0
  /\ out' = [out EXCEPT !.closed = TRUE]
  /\ gpc' = [gpc EXCEPT ![Closer].at = "exit"]
  /\ UNCHANGED <<cs, mergeWg, consumer, oidcVars, serviceVars>>

\* Map(in, mapFunc): out is made and the mapping goroutine is started.
Map ==
  /\ ~out.made
  /\ out' = [out EXCEPT !.made = TRUE]
  /\ gpc' = [gpc EXCEPT ![MapIn] = [at |-> "map range", n |-> 0]]
  /\ UNCHANGED <<cs, mergeWg, consumer, oidcVars, serviceVars>>

\* Map's goroutine: the range receives the next value of in.
MapRecv ==
  /\ gpc[MapIn].at = "map range"
  /\ cs[MapIn].buf # <<>>
  /\ gpc' = [gpc EXCEPT ![MapIn] = [at |-> "map send", n |-> Head(cs[MapIn].buf)]]
  /\ cs' = [cs EXCEPT ![MapIn].buf = Tail(@)]
  /\ UNCHANGED <<out, mergeWg, consumer, oidcVars, serviceVars>>

\* Map's goroutine: out <- mapFunc(v), which the ranging consumer receives.
MapSend ==
  /\ gpc[MapIn].at = "map send"
  /\ consumer = "ranging"
  /\ out' = [out EXCEPT !.delivered =
                          Append(@, [from |-> MapIn, v |-> mapFunc(gpc[MapIn].n)])]
  /\ gpc' = [gpc EXCEPT ![MapIn].at = "map range"]
  /\ UNCHANGED <<cs, mergeWg, consumer, oidcVars, serviceVars>>

\* Map's goroutine: in is closed and empty, the range ends and the goroutine
\* returns.
MapExit ==
  /\ gpc[MapIn].at = "map range"
  /\ cs[MapIn].buf = <<>>
  /\ cs[MapIn].closed
  /\ gpc' = [gpc EXCEPT ![MapIn].at = "exit"]
  /\ UNCHANGED <<cs, out, mergeWg, consumer, oidcVars, serviceVars>>

\* The caller starts to range over the channel Merge or Map returned.
ConsumerRange ==
  /\ out.made
  /\ consumer = "idle"
  /\ consumer' = "ranging"
  /\ UNCHANGED <<cs, out, mergeWg, gpc, oidcVars, serviceVars>>

\* The caller's range ends: out is closed (and, having no buffer, empty).
ConsumerEnd ==
  /\ consumer = "ranging"
  /\ out.closed
  /\ consumer' = "done"
  /\ UNCHANGED <<cs, out, mergeWg, gpc, oidcVars, serviceVars>>

NextChannels ==
  \/ \E i \in Inputs : Send(i)
  \/ \E i \in Inputs : Close(i)
  \/ Merge
  \/ \E i \in Inputs : OutputRecv(i)
  \/ \E i \in Inputs : OutputSend(i)
  \/ \E i \in Inputs : OutputDone(i)
  \/ CloserClose
  \/ Map
  \/ MapRecv
  \/ MapSend
  \/ MapExit
  \/ ConsumerRange
  \/ ConsumerEnd

\* The goroutines Merge and Map start run when they can, and the caller
\* ranges over the output; nothing is assumed of the producers.
SpecChannels ==
  /\ Init
  /\ [][NextChannels]_vars
  /\ \A i \in Inputs :
       WF_vars(OutputRecv(i)) /\ WF_vars(OutputSend(i)) /\ WF_vars(OutputDone(i))
  /\ WF_vars(CloserClose)
  /\ WF_vars(MapRecv) /\ WF_vars(MapSend) /\ WF_vars(MapExit)
  /\ WF_vars(ConsumerRange) /\ WF_vars(ConsumerEnd)

\* The values delivered on out that came from input i, in order of delivery.
DeliveredFrom(i) ==
  LET F[k \in 0..Len(out.delivered)] ==
        IF k = 0 THEN <<>>
        ELSE IF out.delivered[k].from = i THEN Append(F[k - 1], out.delivered[k].v)
        ELSE F[k - 1]
  IN F[Len(out.delivered)]

Merged == gpc[Closer].at # "none"

Mapped == out.made /\ ~Merged

AllClosed == \A i \in Inputs : cs[i].closed

\* C24: what Merge has delivered from an input is, in order, a first part
\* of what was sent on it, each value once; the output is closed only when
\* every input is closed and everything sent was delivered; and once all
\* inputs are closed, with the consumer ranging over the output, the output
\* gets closed, every goroutine of Merge ends and so does the consumer.
C24_Delivery ==
  Merged =>
    /\ \A i \in Inputs :
         /\ IsPrefix(DeliveredFrom(i), cs[i].sent)
         /\ Len(cs[i].sent) = Len(DeliveredFrom(i)) + Len(cs[i].buf)
                                + (IF gpc[i].at = "send" THEN 1 ELSE 0)
    /\ out.closed =>
         /\ AllClosed
         /\ \A i \in Inputs : DeliveredFrom(i) = cs[i].sent
         /\ \A i \in Inputs \cup {Closer} : gpc[i].at = "exit"

MergeDone ==
  /\ out.closed
  /\ consumer = "done"
  /\ \A i \in Inputs \cup {Closer} : gpc[i].at = "exit"
  /\ \A i \in Inputs : DeliveredFrom(i) = cs[i].sent

C24_Merge ==
  /\ []C24_Delivery
  /\ (Merged /\ AllClosed) ~> MergeDone

C24_Witness ==
  /\ Merged /\ MergeDone
  /\ \A i \in Inputs : Len(cs[i].sent) = MaxSend
  /\ out.delivered[1].from # out.delivered[2].from

\* C30: Map delivers mapFunc(v) for every value v received from its input,
\* in order; and once the input is closed and the mapped values were
\* consumed the output gets closed and the consumer's range ends.
MapDelivery ==
  Mapped =>
    /\ Len(DeliveredFrom(MapIn)) = Len(out.delivered)
    /\ Len(out.delivered) <= Len(cs[MapIn].sent)
    /\ \A k \in 1..Len(out.delivered) :
         out.delivered[k].v = mapFunc(cs[MapIn].sent[k])

C30_Original ==
  /\ []MapDelivery
  /\ (Mapped /\ cs[MapIn].closed) ~> (out.closed /\ consumer = "done")

\* The i-th entry of the test's history is a call whose refresh failed.
FailedRefreshAt(i) ==
  log[i].op = "resolve" /\ log[i].done /\ log[i].err = "fetch"

\* C25: a refresh whose fetch fails leaves the cache as it was before the
\* call, so that a key id the cache resolved before the failed call is
\* resolved, without a fetch, by the call after it; and from the entry
\* into updateKeySet to the return of the error the call holds no lock.
C25_FailedRefresh ==
  /\ \A i \in 1..Len(log) :
       FailedRefreshAt(i) =>
         /\ log[i].after = log[i].before
         /\ log[i].key = NoKey /\ log[i].nfetch = 1
         /\ (/\ i + 1 <= Len(log)
             /\ log[i + 1].op = "resolve" /\ log[i + 1].done
             /\ HasKid(log[i].before, log[i + 1].kid))
            => /\ log[i + 1].err = "none"
               /\ log[i + 1].key = Key(log[i + 1].kid)
               /\ log[i + 1].nfetch = 0
  /\ \A p \in Procs :
       (pc[p] \in {"update", "fetch"} \/ loc[p].err = "fetch") =>
          /\ writer = NoProc /\ readers = {}
          /\ Len(log) > 0 /\ ~log[Len(log)].done => keySet = log[Len(log)].before

C25_Witness ==
  /\ Len(log) >= 2
  /\ FailedRefreshAt(1)
  /\ HasKid(served, log[1].kid)
  /\ log[2].op = "resolve" /\ log[2].done
  /\ HasKid(log[1].before, log[2].kid)
  /\ log[2].err = "none"

\* The rotation after which the endpoint served the set s.
EpochOf(s) == CHOOSE e \in 0..MaxRotations : KeySetAt(e) = s

\* C26: the installed key set is never replaced by a set that the endpoint
\* served, and a call fetched, before the installed one; and a call that
\* missed, fetched the set the endpoint serves now and looked the key id up
\* again finds a key id that this set has.
C26_Original ==
  /\ [][(handler = "ready" /\ keySet' # keySet) =>
          EpochOf(keySet') >= EpochOf(keySet)]_vars
  /\ [](\A p \in Procs :
          (/\ pc[p] = "done" /\ loc[p].missed /\ loc[p].err # "fetch"
           /\ loc[p].fetched = served
           /\ HasKid(served, loc[p].keyID))
          => loc[p].key = Key(loc[p].keyID))

\* The reasons for which parseToken rejects a token before it asks for a key.
HeaderStageErrors == {"malformed", "multisig", "nokid", "notype", "typemismatch"}

\* C27: a request whose token is rejected for its header (unparsable, not
\* one signature, no key id, no type, wrong type) makes no lookup and no
\* fetch and leaves the cache alone; a finished request has made exactly one
\* fetch when it reached the key resolution with a key id that the cache
\* did not have, and none otherwise.
C27_FetchesPerRequest ==
  \A p \in Procs :
    LET r == req[p]
    IN /\ loc[p].nfetch <= 1
       /\ r.reason \in HeaderStageErrors =>
            /\ loc[p].nlookup = 0 /\ loc[p].nfetch = 0
            /\ loc[p] = InitLoc
            /\ "resolve" \notin Range(r.stages)
            /\ keySet = r.cache0
       /\ Finished(p) =>
            loc[p].nfetch =
              IF "resolve" \in Range(r.stages) /\ ~HasKid(r.cache0, r.head.kid)
                THEN 1 ELSE 0

\* A token of the wrong type whose key id the endpoint serves and the cache
\* lacks was rejected without a fetch.
C27_Witness ==
  \E p \in Procs :
    /\ Finished(p) /\ req[p].reason = "typemismatch"
    /\ req[p].head.kid # NoKid /\ ~HasKid(keySet, req[p].head.kid)
    /\ HasKid(served, req[p].head.kid)
    /\ loc[p].nfetch = 0

\* Configurations whose TokenLookup names source kinds that OIDCWithConfig
\* does not know ("body", "session"), alone or next to a known one.
LookupConfigs ==
  {[MwBase EXCEPT !.TokenLookup = l] :
     l \in {<<"body">>, <<"body", "session">>, <<"body", "header">>,
            <<"query", "body">>}}

\* The middleware under these configurations.
NextLookup ==
  \/ \E c \in LookupConfigs : OIDCWithConfigOK(c)
  \/ \E c \in LookupConfigs : OIDCWithConfigPanic(c)
  \/ RotateKeys
  \/ \E src \in ExtractSources, h \in ExtractHeads : MwRequest(ReqProc, src, h)
  \/ HandlerStep(ReqProc)
  \/ \E pl \in ExtractPayloads : MwResolved(ReqProc, pl)
  \/ MwFinish(ReqProc)

SpecLookup == Init /\ [][NextLookup]_vars

\* Some extractor of the chain reports found for p's request.
SomeExtractorFinds(p) == \E i \in 1..Len(Chain) : Finds(p, Chain[i]).found

\* C28: under every TokenLookup, one of unknown source kinds only included,
\* a request from which no extractor obtained a token is rejected as
\* token-missing, with 400, before parseToken; and no request is accepted
\* unless some extractor reported found.
C28_Original ==
  \A p \in Procs :
    req[p].active =>
      /\ ~SomeExtractorFinds(p) =>
           /\ req[p].outcome = "rejected" /\ req[p].reason = "missing"
           /\ req[p].stages = <<"extract">>
           /\ req[p].resp.code = 400
      /\ req[p].outcome = "accepted" => SomeExtractorFinds(p)

\* C29: a rejected request, for a missing token or a failed validation
\* alike, is answered by ErrorHandler, called once, whenever ErrorHandler is
\* set, and then ErrorHandlerWithContext is not called; by
\* ErrorHandlerWithContext, called once, only when ErrorHandler is nil; and
\* by the built-in error, 400 or 401, only when both are nil.
C29_HandlerPriority ==
  \A p \in Procs :
    LET r == req[p]
    IN /\ r.calls.errorCtx > 0 => ~cfg.ErrorHandler
       /\ Finished(p) /\ r.outcome = "rejected" =>
            /\ cfg.ErrorHandler =>
                 /\ r.calls.error = 1 /\ r.calls.errorCtx = 0
                 /\ r.resp.by = "ErrorHandler"
            /\ (~cfg.ErrorHandler /\ cfg.ErrorHandlerWithContext) =>
                 /\ r.calls.error = 0 /\ r.calls.errorCtx = 1
                 /\ r.resp.by = "ErrorHandlerWithContext"
            /\ r.resp.by = "default" <=> NoErrorHandler
            /\ r.resp.by = "default" =>
                 /\ ErrorCalls(p) = 0
                 /\ r.resp.code = (IF r.reason = "missing" THEN 400 ELSE 401)

\* Under a configuration with both handlers a request without a token was
\* answered by ErrorHandler alone.
C29_Witness ==
  \E p \in Procs :
    /\ Finished(p) /\ req[p].outcome = "rejected" /\ req[p].reason = "missing"
    /\ cfg.ErrorHandler /\ cfg.ErrorHandlerWithContext
    /\ req[p].calls.error = 1 /\ req[p].calls.errorCtx = 0
    /\ req[p].resp.by = "ErrorHandler"

====
